---- MODULE Spec2Model ----
(***************************************************************************)
(* The interactive mode state machine of shito (src/src/app.rs), the       *)
(* character rules it calls (src/src/models.rs), the dice evaluator        *)
(* (src/src/dice.rs) and the character table it writes through to          *)
(* (src/src/db.rs).                                                        *)
(*                                                                         *)
(* Text is a sequence of one-character strings, so that trimming,          *)
(* splitting, lower-casing and integer parsing are computed as the code    *)
(* computes them.  Option<T> is a sequence of length 0 (None) or 1 (Some). *)
(***************************************************************************)
EXTENDS Integers, Sequences, FiniteSets, TLC

\* ------------------------------------------------------------------ bounds
\* highest rowid the wizard's commits take (AUTOINCREMENT never reuses one)
MaxId == 2
\* store operations that may fail in one run
MaxFailures == 1
\* level the 'l' key is pressed up to
MaxLevel == 2
\* spell slots a character is given in all with ']'
MaxSlot == 1
\* items an inventory is grown to
MaxInv == 1
\* distance from either end of [0, hp_max] that '+' and '-' are pressed within
MaxHpSteps == 2
\* dice of up to MaxFaces sides show every face
MaxFaces == 20

\* ------------------------------------------------------------------ i32
I32Max == 2147483647
I32Min == -I32Max - 1

\* ------------------------------------------------------------------ Option
None == <<>>
Some(x) == <<x>>
IsSome(o) == Len(o) = 1
Unwrap(o) == o[1]

\* ------------------------------------------------------------------ text
Ascii ==
    <<" ","!","\"","#","$","%","&","'","(",")","*","+",",","-",".","/">> \o
    <<"0","1","2","3","4","5","6","7","8","9",":",";","<","=",">","?">> \o
    <<"@","A","B","C","D","E","F","G","H","I","J","K","L","M","N","O">> \o
    <<"P","Q","R","S","T","U","V","W","X","Y","Z","[","\\","]","^","_">> \o
    <<"grave","a","b","c","d","e","f","g","h","i","j","k","l","m","n","o">> \o
    <<"p","q","r","s","t","u","v","w","x","y","z","{","|","}","~">>

\* the printable ASCII characters in byte order, from 32; Code(c) is the byte of c
\* ("grave" stands for the backquote, which a TLA+ string cannot hold)
Code(c) == 31 + (CHOOSE i \in 1..Len(Ascii) : Ascii[i] = c)
Chr(n) == Ascii[n - 31]

IsWhitespace(c) == c = " "
IsDigit(c) == Code(c) >= 48 /\ Code(c) <= 57
DigitVal(c) == Code(c) - 48

CharToLower(c) == IF Code(c) >= 65 /\ Code(c) <= 90 THEN Chr(Code(c) + 32) ELSE c
CharToUpper(c) == IF Code(c) >= 97 /\ Code(c) <= 122 THEN Chr(Code(c) - 32) ELSE c

\* str::to_lowercase / str::to_uppercase
to_lowercase(s) == [i \in 1..Len(s) |-> CharToLower(s[i])]
to_uppercase(s) == [i \in 1..Len(s) |-> CharToUpper(s[i])]

RECURSIVE trim_start(_)
trim_start(s) ==
    IF s # <<>> /\ IsWhitespace(Head(s)) THEN trim_start(Tail(s)) ELSE s

RECURSIVE trim_end(_)
trim_end(s) ==
    IF s # <<>> /\ IsWhitespace(s[Len(s)])
    THEN trim_end(SubSeq(s, 1, Len(s) - 1))
    ELSE s

\* str::trim
trim(s) == trim_end(trim_start(s))

\* str::replace(from, to) for single characters
replace(s, from, to) == [i \in 1..Len(s) |-> IF s[i] = from THEN to ELSE s[i]]

\* str::split(sep): the pieces between separators, empty pieces kept
RECURSIVE SplitFrom(_, _, _)
SplitFrom(s, sep, cur) ==
    IF s = <<>> THEN <<cur>>
    ELSE IF Head(s) = sep THEN <<cur>> \o SplitFrom(Tail(s), sep, <<>>)
    ELSE SplitFrom(Tail(s), sep, Append(cur, Head(s)))

split(s, sep) == SplitFrom(s, sep, <<>>)

\* the non-empty pieces of a sequence of pieces, in order
RECURSIVE NonEmptyPieces(_)
NonEmptyPieces(ps) ==
    IF ps = <<>> THEN <<>>
    ELSE IF Head(ps) # <<>> THEN <<Head(ps)>> \o NonEmptyPieces(Tail(ps))
    ELSE NonEmptyPieces(Tail(ps))

\* str::split_whitespace: the maximal runs of non-whitespace characters
split_whitespace(s) == NonEmptyPieces(split(s, " "))

\* the digits of a token accumulated as an i32, None on overflow or a non-digit;
\* a negative number is accumulated downwards, as i32::from_str does
RECURSIVE ParseDigits(_, _, _)
ParseDigits(ds, acc, neg) ==
    IF ds = <<>> THEN Some(acc)
    ELSE IF ~IsDigit(Head(ds)) THEN None
    ELSE LET d == DigitVal(Head(ds)) IN
         IF neg
         THEN IF acc < (I32Min + d + 9) \div 10 THEN None
              ELSE ParseDigits(Tail(ds), acc * 10 - d, neg)
         ELSE IF acc > (I32Max - d) \div 10 THEN None
              ELSE ParseDigits(Tail(ds), acc * 10 + d, neg)

\* str::parse::<i32>: an optional sign and at least one digit, within i32
parse_i32(s) ==
    IF s = <<>> THEN None
    ELSE IF Head(s) = "-" THEN (IF Len(s) = 1 THEN None ELSE ParseDigits(Tail(s), 0, TRUE))
    ELSE IF Head(s) = "+" THEN (IF Len(s) = 1 THEN None ELSE ParseDigits(Tail(s), 0, FALSE))
    ELSE ParseDigits(s, 0, FALSE)

\* byte-wise comparison of two texts (SQLite's BINARY collation)
RECURSIVE TextLe(_, _)
TextLe(a, b) ==
    IF a = <<>> THEN TRUE
    ELSE IF b = <<>> THEN FALSE
    ELSE IF Head(a) = Head(b) THEN TextLe(Tail(a), Tail(b))
    ELSE Code(Head(a)) < Code(Head(b))

IsPrefix(p, t) == Len(p) <= Len(t) /\ SubSeq(t, 1, Len(p)) = p

\* i32 addition: the sum, or "overflow" when it leaves the i32 range
CheckedAdd(a, b) ==
    IF b > 0 /\ a > I32Max - b THEN "overflow"
    ELSE IF b < 0 /\ a < I32Min - b THEN "overflow"
    ELSE "ok"

\* the two's-complement result of a + b
WrappingAdd(a, b) ==
    IF b > 0 /\ a > I32Max - b THEN (a - I32Max - 1) + (b + I32Min)
    ELSE IF b < 0 /\ a < I32Min - b THEN (a - I32Min) + (b + I32Max + 1)
    ELSE a + b

\* the sum of a sequence of integers
RECURSIVE SumSeq(_)
SumSeq(q) == IF q = <<>> THEN 0 ELSE Head(q) + SumSeq(Tail(q))

\* Ord::clamp / Ord::max / Ord::min
clamp(v, lo, hi) == IF v < lo THEN lo ELSE IF v > hi THEN hi ELSE v
max(a, b) == IF a >= b THEN a ELSE b
min(a, b) == IF a <= b THEN a ELSE b
saturating_sub(a, b) == IF a >= b THEN a - b ELSE 0

\* ------------------------------------------------------------------ models.rs
\* integer division rounding toward zero (Rust's / on i32)
TruncDiv(a, b) == IF a >= 0 THEN a \div b ELSE (a + b - 1) \div b

\* i32::div_euclid for a positive divisor: the quotient rounded toward minus infinity
div_euclid(a, b) == LET q == TruncDiv(a, b) IN IF a - q * b < 0 THEN q - 1 ELSE q

StrUnnamed == <<"U","n","n","a","m","e","d">>
StrFighter == <<"F","i","g","h","t","e","r">>
StrHuman == <<"H","u","m","a","n">>

\* Character::default()
DefaultCharacter ==
    [ id |-> None,
      name |-> StrUnnamed,
      class_name |-> StrFighter,
      race |-> StrHuman,
      level |-> 1,
      hp_current |-> 10,
      hp_max |-> 10,
      armor_class |-> 10,
      speed |-> 30,
      strength |-> 10,
      dexterity |-> 10,
      constitution |-> 10,
      intelligence |-> 10,
      wisdom |-> 10,
      charisma |-> 10,
      spell_slots |-> [i \in 1..9 |-> 0],
      inventory |-> <<>>,
      skill_proficiencies |-> <<>>,
      notes |-> None ]

\* an i32 addition as the build performs it: the sum when it fits; on overflow a
\* panic (overflow checks on) or the wrapped sum (overflow checks off)
AddOutcomes(a, b) ==
    IF CheckedAdd(a, b) = "ok"
    THEN {[panic |-> FALSE, v |-> a + b]}
    ELSE {[panic |-> TRUE, v |-> a], [panic |-> FALSE, v |-> WrappingAdd(a, b)]}

\* the outcome of a computation that returns v
Returns(v) == [panic |-> FALSE, v |-> v]
\* the outcome of a computation that panics
Panics == [panic |-> TRUE, v |-> 0]

\* Character::ability_mod: the outcomes of (score - 10).div_euclid(2)
ability_mod(score) ==
    {IF o.panic THEN Panics ELSE Returns(div_euclid(o.v, 2)) : o \in AddOutcomes(score, -10)}

\* Character::proficiency_bonus: the outcomes of 2 + ((self.level - 1) / 4)
proficiency_bonus(c) ==
    {IF o.panic THEN Panics ELSE Returns(2 + TruncDiv(o.v, 4)) : o \in AddOutcomes(c.level, -1)}

\* Character::level_up: the outcomes, each the character after it or a panic
level_up(c) ==
    {[panic |-> o.panic, c |-> IF o.panic THEN c ELSE [c EXCEPT !.level = o.v]] :
        o \in AddOutcomes(c.level, 1)}

\* Character::change_hp; Ord::clamp panics when its bounds are inverted
change_hp(c, delta) ==
    {[panic |-> o.panic \/ 0 > c.hp_max,
      c |-> IF o.panic \/ 0 > c.hp_max THEN c
            ELSE [c EXCEPT !.hp_current = clamp(o.v, 0, c.hp_max)]] :
        o \in AddOutcomes(c.hp_current, delta)}

\* an add_item that takes a blank item too
add_item_unchecked(c, item) == [c EXCEPT !.inventory = Append(@, item)]

\* Character::add_item
add_item(c, item) ==
    IF trim(item) # <<>> THEN [c EXCEPT !.inventory = Append(@, item)] ELSE c

\* Character::remove_item; index counts from 0
remove_item(c, index) ==
    IF index < Len(c.inventory)
    THEN [c EXCEPT !.inventory =
            SubSeq(@, 1, index) \o SubSeq(@, index + 2, Len(@))]
    ELSE c

\* Character::adjust_spell_slot; slot idx (from 0) is spell_slots[idx + 1] here
adjust_spell_slot(c, level, delta) ==
    IF level >= 1 /\ level <= 9
    THEN {[panic |-> o.panic,
           c |-> IF o.panic THEN c ELSE [c EXCEPT !.spell_slots[level] = max(o.v, 0)]] :
            o \in AddOutcomes(c.spell_slots[level], delta)}
    ELSE {[panic |-> FALSE, c |-> c]}

StrStr == <<"s","t","r">>
StrStrength == <<"s","t","r","e","n","g","t","h">>
StrDex == <<"d","e","x">>
StrDexterity == <<"d","e","x","t","e","r","i","t","y">>
StrCon == <<"c","o","n">>
StrConstitution == <<"c","o","n","s","t","i","t","u","t","i","o","n">>
StrInt == <<"i","n","t">>
StrIntelligence == <<"i","n","t","e","l","l","i","g","e","n","c","e">>
StrWis == <<"w","i","s">>
StrWisdom == <<"w","i","s","d","o","m">>
StrCha == <<"c","h","a">>
StrCharisma == <<"c","h","a","r","i","s","m","a">>

\* Character::ability_modifier_by_name
ability_modifier_by_name(c, name) ==
    LET n == to_lowercase(name) IN
    IF n \in {StrStr, StrStrength} THEN ability_mod(c.strength)
    ELSE IF n \in {StrDex, StrDexterity} THEN ability_mod(c.dexterity)
    ELSE IF n \in {StrCon, StrConstitution} THEN ability_mod(c.constitution)
    ELSE IF n \in {StrInt, StrIntelligence} THEN ability_mod(c.intelligence)
    ELSE IF n \in {StrWis, StrWisdom} THEN ability_mod(c.wisdom)
    ELSE IF n \in {StrCha, StrCharisma} THEN ability_mod(c.charisma)
    ELSE {Returns(0)}

\* all_skills(): the catalog, each entry <<skill name, governing ability>>
all_skills ==
    <<
      <<<<"a","c","r","o","b","a","t","i","c","s">>, <<"d","e","x">>>>,
      <<<<"a","n","i","m","a","l"," ","h","a","n","d","l","i","n","g">>, <<"w","i","s">>>>,
      <<<<"a","r","c","a","n","a">>, <<"i","n","t">>>>,
      <<<<"a","t","h","l","e","t","i","c","s">>, <<"s","t","r">>>>,
      <<<<"d","e","c","e","p","t","i","o","n">>, <<"c","h","a">>>>,
      <<<<"h","i","s","t","o","r","y">>, <<"i","n","t">>>>,
      <<<<"i","n","s","i","g","h","t">>, <<"w","i","s">>>>,
      <<<<"i","n","t","i","m","i","d","a","t","i","o","n">>, <<"c","h","a">>>>,
      <<<<"i","n","v","e","s","t","i","g","a","t","i","o","n">>, <<"i","n","t">>>>,
      <<<<"m","e","d","i","c","i","n","e">>, <<"w","i","s">>>>,
      <<<<"n","a","t","u","r","e">>, <<"i","n","t">>>>,
      <<<<"p","e","r","c","e","p","t","i","o","n">>, <<"w","i","s">>>>,
      <<<<"p","e","r","f","o","r","m","a","n","c","e">>, <<"c","h","a">>>>,
      <<<<"p","e","r","s","u","a","s","i","o","n">>, <<"c","h","a">>>>,
      <<<<"r","e","l","i","g","i","o","n">>, <<"i","n","t">>>>,
      <<<<"s","l","e","i","g","h","t"," ","o","f"," ","h","a","n","d">>, <<"d","e","x">>>>,
      <<<<"s","t","e","a","l","t","h">>, <<"d","e","x">>>>,
      <<<<"s","u","r","v","i","v","a","l">>, <<"w","i","s">>>>
    >>

\* the catalog's skill names
SkillNames == {all_skills[i][1] : i \in 1..Len(all_skills)}

\* a lookup that compares the name as it is written
skill_to_ability_exact(skill) ==
    LET hits == {i \in 1..Len(all_skills) : all_skills[i][1] = skill}
    IN IF hits # {}
       THEN LET i == CHOOSE j \in hits : \A k \in hits : j <= k
            IN <<all_skills[i][2], all_skills[i][1]>>
       ELSE <<StrStr, <<>>>>

\* skill_to_ability: <<ability, key>> of the first catalog entry named skill
skill_to_ability(skill) ==
    LET s == to_lowercase(skill)
        hits == {i \in 1..Len(all_skills) : all_skills[i][1] = s}
    IN IF hits # {}
       THEN LET i == CHOOSE j \in hits : \A k \in hits : j <= k
            IN <<all_skills[i][2], all_skills[i][1]>>
       ELSE <<StrStr, <<>>>>

\* Character::skill_modifier
skill_modifier(c, skill) ==
    LET ak == skill_to_ability(skill)
        base == ability_modifier_by_name(c, ak[1])
        proficient == \E i \in 1..Len(c.skill_proficiencies) :
                          to_lowercase(c.skill_proficiencies[i]) = ak[2]
        bonus == IF proficient THEN proficiency_bonus(c) ELSE {Returns(0)}
    IN {IF b.panic \/ p.panic THEN Panics ELSE Returns(b.v + p.v) : b \in base, p \in bonus}

\* ------------------------------------------------------------------ state
VARIABLES
    characters,            \* db.rs: the rows of table characters (each with its id)
    sqlite_sequence,       \* db.rs: the highest rowid AUTOINCREMENT has handed out
    failures,              \* store operations that have returned Err so far
    items,                 \* App.items
    selected,              \* App.selected
    mode,                  \* App.mode
    input,                 \* App.input
    status,                \* App.status, as the pieces it is formatted from
    wizard,                \* App.wizard: Option<NewCharDraft>
    selected_spell_level,  \* App.selected_spell_level
    detail_tab,            \* App.detail_tab
    proc,                  \* the process: "running", "quit" (on_key returned true), "panicked"
    session,               \* the user: the commands this session uses
    script,                \* the user: the wizard run being typed (0: none)
    confirmed,             \* history: the steps confirmed in the wizard run under way
    call,                  \* a function called on its own: <<name, arguments>>, or <<>>
    result                 \* the outcome of that call once it has returned or panicked

vars == <<characters, sqlite_sequence, failures, items, selected, mode, input, status,
          wizard, selected_spell_level, detail_tab, proc, session, script, confirmed,
          call, result>>

app_vars == <<items, selected, mode, input, status, wizard, selected_spell_level,
              detail_tab>>
db_vars == <<characters, sqlite_sequence, failures>>
calc_vars == <<call, result>>

CreateModes == <<"CreateName", "CreateClass", "CreateRace", "CreateAbilities",
                 "CreateHpMax", "CreateAc", "CreateSpeed", "CreateSkills">>
CreateModeSet == {CreateModes[i] : i \in 1..Len(CreateModes)}
Modes == CreateModeSet \cup {"List", "Details", "Edit", "EditAddItem", "Roll"}

\* ------------------------------------------------------------------ db.rs
\* Db::insert_character: the table after the INSERT; the row takes the next rowid.
\* (spell_slots, inventory and skill_proficiencies go through serde_json, which
\* writes and reads back Vec<i32> and Vec<String> unchanged: a row is held decoded.)
\* an INSERT whose row is read back without its rowid
insert_character_unassigned(tbl, seq, c) == tbl \cup {c}

insert_character(tbl, seq, c) == tbl \cup {[c EXCEPT !.id = Some(seq + 1)]}

\* Db::update_character: every column of the row WHERE id = character.id
update_character(tbl, c) == {IF r.id = c.id THEN c ELSE r : r \in tbl}

\* Db::delete_character
\* a DELETE without its WHERE clause
delete_all_characters(tbl, id) == {}

delete_character(tbl, id) == {r \in tbl : r.id # Some(id)}

\* Db::list_characters: the rows ORDER BY name ASC; rows of equal name come in
\* an order SQL leaves open
list_characters(tbl) ==
    LET n == Cardinality(tbl) IN
    {l \in [1..n -> tbl] :
        /\ \A i, j \in 1..n : i # j => l[i] # l[j]
        /\ \A i \in 1..n : \A j \in i..n : TextLe(l[i].name, l[j].name)}

\* whether ops store operations, oks of them succeeding, stay within the failures
\* this run may see
MayFail(oks) ==
    failures + Cardinality({i \in 1..Len(oks) : ~oks[i]}) <= MaxFailures
Failed(oks) == failures + Cardinality({i \in 1..Len(oks) : ~oks[i]})

\* ------------------------------------------------------------------ app.rs: helpers
InitialStatus == <<"q: quit | n: new | e: edit | d: delete | r: roll | +/- hp | [/] slot | 1-9 select slot">>
default_status == <<"Enter: open details | q: quit | n: new | d: delete | r: roll">>
details_status == <<"Arrows/Tabs: switch tabs | e: edit | r: roll | Esc: back">>
edit_status == <<"Editing: +/- hp | [/] adjust slot | 1-9 select | a/A add/remove item | l level up | s save | Esc: back">>
ListEditStatus == <<"Editing: +/- hp | [/] adjust | 1-9 select slot | a/A add/remove item | l level up | s save | Esc cancel">>

\* capitalize
capitalize(s) == IF s = <<>> THEN <<>> ELSE <<CharToUpper(Head(s))>> \o Tail(s)

\* NewCharDraft::default()
DefaultDraft ==
    [ name |-> <<>>, class_name |-> <<>>, race |-> <<>>,
      abilities |-> <<0, 0, 0, 0, 0, 0>>,
      hp_max |-> 0, hp_current |-> 0, armor_class |-> 0, speed |-> 0,
      skill_proficiencies |-> <<>> ]

\* App::current_mut / self.items.get(self.selected); selected counts from 0
current(its, sel) == IF sel < Len(its) THEN Some(its[sel + 1]) ELSE None

\* App::reload: <<items, selected>> after it; ok is whether list_characters returned Ok
\* a reload that keeps the selection as it was
reload_unclamped(tbl, its, sel, ok) ==
    IF ok THEN {<<l, sel>> : l \in list_characters(tbl)} ELSE {<<its, sel>>}

reload(tbl, its, sel, ok) ==
    IF ok
    THEN {<<l, IF sel >= Len(l) THEN saturating_sub(Len(l), 1) ELSE sel>> :
            l \in list_characters(tbl)}
    ELSE {<<its, sel>>}

\* App::save_current: the table after it, or a panic when the character has no id
\* (the expect in Db::update_character); ok is whether the UPDATE returned Ok
\* a save that writes nothing
save_current_deferred(tbl, its, sel, ok) ==
    LET cur == current(its, sel) IN
    [panic |-> IsSome(cur) /\ ~IsSome(Unwrap(cur).id), tbl |-> tbl]

save_current(tbl, its, sel, ok) ==
    LET cur == current(its, sel) IN
    IF ~IsSome(cur) THEN [panic |-> FALSE, tbl |-> tbl]
    ELSE IF ~IsSome(Unwrap(cur).id) THEN [panic |-> TRUE, tbl |-> tbl]
    ELSE [panic |-> FALSE, tbl |-> IF ok THEN update_character(tbl, Unwrap(cur)) ELSE tbl]

Running == proc = "running"
Does(cmd) == cmd \in session

\* the process aborts inside the handler
Panic == proc' = "panicked" /\ UNCHANGED <<app_vars, db_vars, session, script, confirmed>>

\* ------------------------------------------------------------------ the user
\* The wizard runs the user types: the text submitted at each step.
Scripts ==
    << [ CreateName |-> <<>>,
         CreateClass |-> <<>>,
         CreateRace |-> <<>>,
         CreateAbilities |-> <<"1"," ","2"," ","3"," ","4"," ","5"," ","6">>,
         CreateHpMax |-> <<" ","0"," ">>,
         CreateAc |-> <<"1","0">>,
         CreateSpeed |-> <<"3","0">>,
         CreateSkills |-> <<"A","r","c","a","n","a",";","x",","," ","a","r","c","a","n","a">> ],
       [ CreateName |-> <<" ","B","o"," ">>,
         CreateClass |-> <<"B","a","r","d"," ">>,
         CreateRace |-> <<" ","E","l","f">>,
         CreateAbilities |-> <<"1"," ","2"," ","3"," ","4"," ","5"," ","x"," ","9">>,
         CreateHpMax |-> <<"2","1","4","7","4","8","3","6","4","7">>,
         CreateAc |-> <<"-","1">>,
         CreateSpeed |-> <<"+","2","5">>,
         CreateSkills |-> <<"q">> ] >>

\* Texts the user also submits at a step in any run.
OtherTexts(m) ==
    CASE m = "CreateAbilities" ->
            { <<"1"," ","2"," ","3"," ","4"," ","5">>,
              <<"1"," ","2"," ","3"," ","4"," ","5"," ","6"," ","7">> }
      [] m = "CreateHpMax" ->
            { <<>>, <<"x">>, <<"2","1","4","7","4","8","3","6","4","8">> }
      [] m = "CreateAc" -> { <<"1","o">> }
      [] m = "CreateSpeed" -> { <<>> }
      [] m = "EditAddItem" -> { <<>>, <<" ">>, <<" ","r","o","p","e"," ">>, <<"q">> }
      [] m = "Roll" ->
            { <<>>, <<"2","d","2">>, <<" ","S","t","e","a","l","t","h">>,
              <<"d","e","x">>, <<"z","z">>, <<"q">>,
              <<"2","d","2","1","4","7","4","8","3","6","4","7">> }
      [] OTHER -> {}

\* the texts the user types in mode m: the key events are the characters of one
\* of them in order, Backspace, and Enter once a text is complete
Texts(m) ==
    (IF m \in CreateModeSet /\ script \in 1..Len(Scripts) THEN {Scripts[script][m]} ELSE {})
        \cup OtherTexts(m)

\* the next characters the user may type
NextChars == {t[Len(input) + 1] : t \in {u \in Texts(mode) : IsPrefix(input, u) /\ Len(input) < Len(u)}}
Submits == input \in Texts(mode)

\* ------------------------------------------------------------------ app.rs: Mode::List
\* KeyCode::Char('q')
ListQuit ==
    /\ Running /\ Does("quit") /\ mode = "List"
    /\ proc' = "quit"
    /\ UNCHANGED <<app_vars, db_vars, session, script, confirmed>>
    /\ UNCHANGED calc_vars

\* KeyCode::Down | KeyCode::Char('j')
ListDown ==
    /\ Running /\ Does("nav") /\ mode = "List"
    /\ selected' = IF items # <<>>
                   THEN min(selected + 1, saturating_sub(Len(items), 1))
                   ELSE selected
    /\ UNCHANGED <<items, mode, input, status, wizard, selected_spell_level, detail_tab,
                   db_vars, proc, session, script, confirmed>>
    /\ UNCHANGED calc_vars

\* KeyCode::Up | KeyCode::Char('k')
ListUp ==
    /\ Running /\ Does("nav") /\ mode = "List"
    /\ selected' = IF items # <<>> THEN saturating_sub(selected, 1) ELSE selected
    /\ UNCHANGED <<items, mode, input, status, wizard, selected_spell_level, detail_tab,
                   db_vars, proc, session, script, confirmed>>
    /\ UNCHANGED calc_vars

\* KeyCode::Enter
\* an Enter that opens Details whether or not there is a character
ListEnter_unguarded ==
    /\ Running /\ Does("details") /\ mode = "List"
    /\ mode' = "Details" /\ status' = details_status
    /\ UNCHANGED <<items, selected, input, wizard, selected_spell_level, detail_tab,
                   db_vars, proc, session, script, confirmed>>
    /\ UNCHANGED calc_vars

ListEnter ==
    /\ Running /\ Does("details") /\ mode = "List"
    /\ IF items # <<>>
       THEN mode' = "Details" /\ status' = details_status
       ELSE UNCHANGED <<mode, status>>
    /\ UNCHANGED <<items, selected, input, wizard, selected_spell_level, detail_tab,
                   db_vars, proc, session, script, confirmed>>
    /\ UNCHANGED calc_vars

\* KeyCode::Char('n'); the user picks the run to type
\* an 'n' that takes up the draft and the text a cancelled run left behind
ListNew_resuming ==
    /\ Running /\ Does("wizard") /\ mode = "List"
    /\ mode' = "CreateName"
    /\ input' = input
    /\ status' = <<"Create: Enter name. Enter to confirm. Esc to cancel.">>
    /\ wizard' = IF IsSome(wizard) THEN wizard ELSE Some(DefaultDraft)
    /\ script' \in 1..Len(Scripts)
    /\ confirmed' = <<>>
    /\ UNCHANGED <<items, selected, selected_spell_level, detail_tab, db_vars, proc, session>>
    /\ UNCHANGED calc_vars

ListNew ==
    /\ Running /\ Does("wizard") /\ mode = "List"
    /\ mode' = "CreateName"
    /\ input' = <<>>
    /\ status' = <<"Create: Enter name. Enter to confirm. Esc to cancel.">>
    /\ wizard' = Some(DefaultDraft)
    /\ script' \in 1..Len(Scripts)
    /\ confirmed' = <<>>
    /\ UNCHANGED <<items, selected, selected_spell_level, detail_tab, db_vars, proc, session>>
    /\ UNCHANGED calc_vars

\* KeyCode::Char('e')
ListEdit ==
    /\ Running /\ Does("edit") /\ mode = "List"
    /\ IF IsSome(current(items, selected))
       THEN mode' = "Edit" /\ status' = ListEditStatus
       ELSE UNCHANGED <<mode, status>>
    /\ UNCHANGED <<items, selected, input, wizard, selected_spell_level, detail_tab,
                   db_vars, proc, session, script, confirmed>>
    /\ UNCHANGED calc_vars

\* KeyCode::Char('d'): delete_character, then reload, the Err of each dropped
\* a 'd' that returns the store's error to the event loop, which ends the process
ListDelete_propagating ==
    /\ Running /\ Does("delete") /\ mode = "List"
    /\ \E okDelete, okList \in BOOLEAN :
        LET cur == current(items, selected) IN
        IF IsSome(cur)
        THEN LET id == Unwrap(cur).id
                 oks == (IF IsSome(id) THEN <<okDelete>> ELSE <<>>) \o <<okList>>
                 tbl == IF IsSome(id) /\ okDelete
                        THEN delete_character(characters, Unwrap(id))
                        ELSE characters
             IN /\ MayFail(oks)
                /\ IsSome(id) \/ okDelete
                /\ characters' = tbl
                /\ failures' = Failed(oks)
                /\ proc' = IF Failed(oks) # failures THEN "quit" ELSE proc
                /\ \E r \in reload(tbl, items, selected, okList) :
                      items' = r[1] /\ selected' = r[2]
        ELSE /\ okDelete /\ okList
             /\ UNCHANGED <<characters, failures, items, selected, proc>>
    /\ UNCHANGED <<sqlite_sequence, mode, input, status, wizard, selected_spell_level,
                   detail_tab, session, script, confirmed>>
    /\ UNCHANGED calc_vars

ListDelete ==
    /\ Running /\ Does("delete") /\ mode = "List"
    /\ \E okDelete, okList \in BOOLEAN :
        LET cur == current(items, selected) IN
        IF IsSome(cur)
        THEN LET id == Unwrap(cur).id
                 oks == (IF IsSome(id) THEN <<okDelete>> ELSE <<>>) \o <<okList>>
                 tbl == IF IsSome(id) /\ okDelete
                        THEN delete_character(characters, Unwrap(id))
                        ELSE characters
             IN /\ MayFail(oks)
                /\ IsSome(id) \/ okDelete
                /\ characters' = tbl
                /\ failures' = Failed(oks)
                /\ \E r \in reload(tbl, items, selected, okList) :
                      items' = r[1] /\ selected' = r[2]
        ELSE /\ okDelete /\ okList
             /\ UNCHANGED <<characters, failures, items, selected>>
    /\ UNCHANGED <<sqlite_sequence, mode, input, status, wizard, selected_spell_level,
                   detail_tab, proc, session, script, confirmed>>
    /\ UNCHANGED calc_vars

\* KeyCode::Char('r')
ListRoll ==
    /\ Running /\ Does("roll") /\ mode = "List"
    /\ mode' = "Roll"
    /\ input' = <<>>
    /\ status' = <<"Type dice (e.g., d20, 2d6) then Enter. Esc cancel">>
    /\ UNCHANGED <<items, selected, wizard, selected_spell_level, detail_tab, db_vars,
                   proc, session, script, confirmed>>
    /\ UNCHANGED calc_vars

\* _ => {}
ListOther ==
    /\ Running /\ Does("other") /\ mode = "List"
    /\ UNCHANGED vars
    /\ UNCHANGED calc_vars

\* ------------------------------------------------------------------ app.rs: Mode::Create*
\* KeyCode::Esc in each of the eight Create modes; the user's run ends
\* an Esc that stores the draft before leaving
CreateEsc_persisting ==
    /\ Running /\ Does("wizard") /\ mode \in CreateModeSet
    /\ sqlite_sequence < MaxId
    /\ mode' = "List"
    /\ status' = default_status
    /\ script' = 0
    /\ confirmed' = <<>>
    /\ characters' = IF IsSome(wizard)
                     THEN insert_character(characters, sqlite_sequence,
                                           [DefaultCharacter EXCEPT !.name = Unwrap(wizard).name])
                     ELSE characters
    /\ sqlite_sequence' = IF IsSome(wizard) THEN sqlite_sequence + 1 ELSE sqlite_sequence
    /\ UNCHANGED <<items, selected, input, wizard, selected_spell_level, detail_tab,
                   failures, proc, session>>
    /\ UNCHANGED calc_vars

CreateEsc ==
    /\ Running /\ Does("wizard") /\ mode \in CreateModeSet
    /\ mode' = "List"
    /\ status' = default_status
    /\ script' = 0
    /\ confirmed' = <<>>
    /\ UNCHANGED <<items, selected, input, wizard, selected_spell_level, detail_tab,
                   db_vars, proc, session>>
    /\ UNCHANGED calc_vars

\* KeyCode::Char(ch) in each of the eight Create modes
CreateChar ==
    /\ Running /\ Does("wizard") /\ mode \in CreateModeSet
    /\ \E ch \in NextChars : input' = Append(input, ch)
    /\ UNCHANGED <<items, selected, mode, status, wizard, selected_spell_level, detail_tab,
                   db_vars, proc, session, script, confirmed>>
    /\ UNCHANGED calc_vars

\* KeyCode::Backspace; CreateSkills has no arm for it
CreateBackspace ==
    /\ Running /\ Does("wizard") /\ mode \in CreateModeSet
    /\ input' = IF mode # "CreateSkills" /\ input # <<>>
                THEN SubSeq(input, 1, Len(input) - 1)
                ELSE input
    /\ UNCHANGED <<items, selected, mode, status, wizard, selected_spell_level, detail_tab,
                   db_vars, proc, session, script, confirmed>>
    /\ UNCHANGED calc_vars

\* _ => {}
CreateOther ==
    /\ Running /\ Does("other") /\ mode \in CreateModeSet
    /\ UNCHANGED vars
    /\ UNCHANGED calc_vars

\* 'if let Some(w) = &mut self.wizard' sets a field of the draft when there is one:
\* the wizard steps below map the change over the optional draft

\* Mode::CreateName, KeyCode::Enter
CreateNameEnter ==
    /\ Running /\ Does("wizard") /\ mode = "CreateName" /\ Submits
    /\ LET set == [i \in DOMAIN wizard |-> [wizard[i] EXCEPT !.name = IF trim(input) = <<>> THEN StrUnnamed ELSE trim(input)]]
       IN wizard' = set
    /\ input' = <<>>
    /\ confirmed' = Append(confirmed, mode)
    /\ mode' = "CreateClass"
    /\ status' = <<"Enter class">>
    /\ UNCHANGED <<items, selected, selected_spell_level, detail_tab, db_vars, proc,
                   session, script>>
    /\ UNCHANGED calc_vars

\* Mode::CreateClass, KeyCode::Enter
CreateClassEnter ==
    /\ Running /\ Does("wizard") /\ mode = "CreateClass" /\ Submits
    /\ LET set == [i \in DOMAIN wizard |-> [wizard[i] EXCEPT !.class_name = IF trim(input) = <<>> THEN StrFighter ELSE trim(input)]]
       IN wizard' = set
    /\ input' = <<>>
    /\ confirmed' = Append(confirmed, mode)
    /\ mode' = "CreateRace"
    /\ status' = <<"Enter race">>
    /\ UNCHANGED <<items, selected, selected_spell_level, detail_tab, db_vars, proc,
                   session, script>>
    /\ UNCHANGED calc_vars

\* Mode::CreateRace, KeyCode::Enter
\* an Enter at CreateRace that skips the abilities step
CreateRaceEnter_skipping ==
    /\ Running /\ Does("wizard") /\ mode = "CreateRace" /\ Submits
    /\ LET set == [i \in DOMAIN wizard |-> [wizard[i] EXCEPT !.race = IF trim(input) = <<>> THEN StrHuman ELSE trim(input)]]
       IN wizard' = set
    /\ input' = <<>>
    /\ confirmed' = Append(confirmed, mode)
    /\ mode' = "CreateHpMax"
    /\ status' = <<"Enter HP Max (number)">>
    /\ UNCHANGED <<items, selected, selected_spell_level, detail_tab, db_vars, proc,
                   session, script>>
    /\ UNCHANGED calc_vars

CreateRaceEnter ==
    /\ Running /\ Does("wizard") /\ mode = "CreateRace" /\ Submits
    /\ LET set == [i \in DOMAIN wizard |-> [wizard[i] EXCEPT !.race = IF trim(input) = <<>> THEN StrHuman ELSE trim(input)]]
       IN wizard' = set
    /\ input' = <<>>
    /\ confirmed' = Append(confirmed, mode)
    /\ mode' = "CreateAbilities"
    /\ status' = <<"Enter abilities as STR DEX CON INT WIS CHA (e.g., 15 14 13 12 10 8)">>
    /\ UNCHANGED <<items, selected, selected_spell_level, detail_tab, db_vars, proc,
                   session, script>>
    /\ UNCHANGED calc_vars

\* the tokens that parse as i32, parsed, in order (filter_map over split_whitespace)
RECURSIVE ParsedTokens(_)
ParsedTokens(toks) ==
    IF toks = <<>> THEN <<>>
    ELSE LET v == parse_i32(Head(toks)) IN
         (IF IsSome(v) THEN <<Unwrap(v)>> ELSE <<>>) \o ParsedTokens(Tail(toks))

\* Mode::CreateAbilities, KeyCode::Enter
CreateAbilitiesEnter ==
    /\ Running /\ Does("wizard") /\ mode = "CreateAbilities" /\ Submits
    /\ LET nums == ParsedTokens(split_whitespace(input)) IN
       IF Len(nums) # 6
       THEN /\ status' = <<"Please enter exactly 6 numbers">>
            /\ UNCHANGED <<wizard, input, mode, confirmed>>
       ELSE /\ LET set == [i \in DOMAIN wizard |-> [wizard[i] EXCEPT !.abilities = SubSeq(nums, 1, 6)]]
               IN wizard' = set
            /\ input' = <<>>
            /\ confirmed' = Append(confirmed, mode)
            /\ mode' = "CreateHpMax"
            /\ status' = <<"Enter HP Max (number)">>
    /\ UNCHANGED <<items, selected, selected_spell_level, detail_tab, db_vars, proc,
                   session, script>>
    /\ UNCHANGED calc_vars

\* Mode::CreateHpMax, KeyCode::Enter
CreateHpMaxEnter ==
    /\ Running /\ Does("wizard") /\ mode = "CreateHpMax" /\ Submits
    /\ LET v == parse_i32(trim(input)) IN
       IF IsSome(v)
       THEN /\ LET set == [i \in DOMAIN wizard |-> [wizard[i] EXCEPT !.hp_max = max(Unwrap(v), 1),
                                       !.hp_current = max(Unwrap(v), 1)]]
               IN wizard' = set
            /\ input' = <<>>
            /\ confirmed' = Append(confirmed, mode)
            /\ mode' = "CreateAc"
            /\ status' = <<"Enter Armor Class (AC) number">>
       ELSE /\ status' = <<"Please enter a valid number">>
            /\ UNCHANGED <<wizard, input, mode, confirmed>>
    /\ UNCHANGED <<items, selected, selected_spell_level, detail_tab, db_vars, proc,
                   session, script>>
    /\ UNCHANGED calc_vars

\* Mode::CreateAc, KeyCode::Enter
\* an Enter at CreateAc that takes an unparsable text for 0
CreateAcEnter_lenient ==
    /\ Running /\ Does("wizard") /\ mode = "CreateAc" /\ Submits
    /\ LET v == parse_i32(trim(input))
           set == [i \in DOMAIN wizard |-> [wizard[i] EXCEPT !.armor_class = IF IsSome(v) THEN Unwrap(v) ELSE 0]]
       IN wizard' = set
    /\ input' = <<>>
    /\ confirmed' = Append(confirmed, mode)
    /\ mode' = "CreateSpeed"
    /\ status' = <<"Enter Speed (ft) number">>
    /\ UNCHANGED <<items, selected, selected_spell_level, detail_tab, db_vars, proc,
                   session, script>>
    /\ UNCHANGED calc_vars

CreateAcEnter ==
    /\ Running /\ Does("wizard") /\ mode = "CreateAc" /\ Submits
    /\ LET v == parse_i32(trim(input)) IN
       IF IsSome(v)
       THEN /\ LET set == [i \in DOMAIN wizard |-> [wizard[i] EXCEPT !.armor_class = Unwrap(v)]]
               IN wizard' = set
            /\ input' = <<>>
            /\ confirmed' = Append(confirmed, mode)
            /\ mode' = "CreateSpeed"
            /\ status' = <<"Enter Speed (ft) number">>
       ELSE /\ status' = <<"Please enter a valid number">>
            /\ UNCHANGED <<wizard, input, mode, confirmed>>
    /\ UNCHANGED <<items, selected, selected_spell_level, detail_tab, db_vars, proc,
                   session, script>>
    /\ UNCHANGED calc_vars

\* Mode::CreateSpeed, KeyCode::Enter
CreateSpeedEnter ==
    /\ Running /\ Does("wizard") /\ mode = "CreateSpeed" /\ Submits
    /\ LET v == parse_i32(trim(input)) IN
       IF IsSome(v)
       THEN /\ LET set == [i \in DOMAIN wizard |-> [wizard[i] EXCEPT !.speed = Unwrap(v)]]
               IN wizard' = set
            /\ input' = <<>>
            /\ confirmed' = Append(confirmed, mode)
            /\ mode' = "CreateSkills"
            /\ status' = <<"Enter skills separated by comma or semicolon (e.g., perception, stealth or stealth; perception)">>
       ELSE /\ status' = <<"Please enter a valid number">>
            /\ UNCHANGED <<wizard, input, mode, confirmed>>
    /\ UNCHANGED <<items, selected, selected_spell_level, detail_tab, db_vars, proc,
                   session, script>>
    /\ UNCHANGED calc_vars

\* each piece trimmed and lower-cased, kept when non-empty and a catalog name
RECURSIVE PickSkills(_)
PickSkills(pieces) ==
    IF pieces = <<>> THEN <<>>
    ELSE LET t == to_lowercase(trim(Head(pieces))) IN
         (IF t # <<>> /\ t \in SkillNames THEN <<t>> ELSE <<>>) \o PickSkills(Tail(pieces))

\* the picked skills of the CreateSkills input
picked(text) == PickSkills(split(replace(text, ";", ","), ","))

\* the Character the commit builds from draft w
\* a conversion that takes the abilities in the order STR, CON, DEX, ...
DraftCharacter_swapped(w, skills) ==
    LET hp == max(w.hp_max, 1) IN
    [DefaultCharacter EXCEPT
        !.name = w.name,
        !.class_name = w.class_name,
        !.race = w.race,
        !.strength = w.abilities[1],
        !.dexterity = w.abilities[3],
        !.constitution = w.abilities[2],
        !.intelligence = w.abilities[4],
        !.wisdom = w.abilities[5],
        !.charisma = w.abilities[6],
        !.hp_max = hp,
        !.hp_current = clamp(w.hp_current, 0, hp),
        !.armor_class = w.armor_class,
        !.speed = w.speed,
        !.skill_proficiencies = skills]

DraftCharacter(w, skills) ==
    LET hp == max(w.hp_max, 1) IN
    [DefaultCharacter EXCEPT
        !.name = w.name,
        !.class_name = w.class_name,
        !.race = w.race,
        !.strength = w.abilities[1],
        !.dexterity = w.abilities[2],
        !.constitution = w.abilities[3],
        !.intelligence = w.abilities[4],
        !.wisdom = w.abilities[5],
        !.charisma = w.abilities[6],
        !.hp_max = hp,
        !.hp_current = clamp(w.hp_current, 0, hp),
        !.armor_class = w.armor_class,
        !.speed = w.speed,
        !.skill_proficiencies = skills]

\* Mode::CreateSkills, KeyCode::Enter: insert_character, then reload, the Err of
\* each dropped; pressed while rowids up to MaxId remain
CreateSkillsEnter ==
    /\ Running /\ Does("wizard") /\ mode = "CreateSkills" /\ Submits
    /\ sqlite_sequence < MaxId
    /\ \E okInsert, okList \in BOOLEAN :
        LET oks == (IF IsSome(wizard) THEN <<okInsert>> ELSE <<>>) \o <<okList>>
            inserted == IsSome(wizard) /\ okInsert
            tbl == IF inserted
                   THEN insert_character(characters, sqlite_sequence,
                                         DraftCharacter(Unwrap(wizard), picked(input)))
                   ELSE characters
        IN /\ MayFail(oks)
           /\ IsSome(wizard) \/ okInsert
           /\ characters' = tbl
           /\ sqlite_sequence' = IF inserted THEN sqlite_sequence + 1 ELSE sqlite_sequence
           /\ failures' = Failed(oks)
           /\ \E r \in reload(tbl, items, selected, okList) :
                 items' = r[1] /\ selected' = r[2]
    /\ wizard' = None
    /\ mode' = "List"
    /\ input' = <<>>
    /\ status' = default_status
    /\ script' = 0
    /\ confirmed' = <<>>
    /\ UNCHANGED <<selected_spell_level, detail_tab, proc, session>>
    /\ UNCHANGED calc_vars

\* ------------------------------------------------------------------ app.rs: Mode::Details
\* KeyCode::Esc
DetailsEsc ==
    /\ Running /\ Does("details") /\ mode = "Details"
    /\ mode' = "List"
    /\ status' = default_status
    /\ UNCHANGED <<items, selected, input, wizard, selected_spell_level, detail_tab,
                   db_vars, proc, session, script, confirmed>>
    /\ UNCHANGED calc_vars

\* KeyCode::Left | KeyCode::Char('h')
DetailsLeft ==
    /\ Running /\ Does("tabs") /\ mode = "Details"
    /\ detail_tab' = saturating_sub(detail_tab, 1)
    /\ UNCHANGED <<items, selected, mode, input, status, wizard, selected_spell_level,
                   db_vars, proc, session, script, confirmed>>
    /\ UNCHANGED calc_vars

\* KeyCode::Right | KeyCode::Char('l')
\* a Right that wraps around to the first tab
DetailsRight_wrapping ==
    /\ Running /\ Does("tabs") /\ mode = "Details"
    /\ detail_tab' = (detail_tab + 1) % 3
    /\ UNCHANGED <<items, selected, mode, input, status, wizard, selected_spell_level,
                   db_vars, proc, session, script, confirmed>>
    /\ UNCHANGED calc_vars

DetailsRight ==
    /\ Running /\ Does("tabs") /\ mode = "Details"
    /\ detail_tab' = min(detail_tab + 1, 2)
    /\ UNCHANGED <<items, selected, mode, input, status, wizard, selected_spell_level,
                   db_vars, proc, session, script, confirmed>>
    /\ UNCHANGED calc_vars

\* KeyCode::Char('e')
DetailsEdit ==
    /\ Running /\ Does("details") /\ Does("edit") /\ mode = "Details"
    /\ IF IsSome(current(items, selected))
       THEN mode' = "Edit" /\ status' = edit_status
       ELSE UNCHANGED <<mode, status>>
    /\ UNCHANGED <<items, selected, input, wizard, selected_spell_level, detail_tab,
                   db_vars, proc, session, script, confirmed>>
    /\ UNCHANGED calc_vars

\* KeyCode::Char('r')
DetailsRoll ==
    /\ Running /\ Does("details") /\ Does("roll") /\ mode = "Details"
    /\ mode' = "Roll"
    /\ input' = <<>>
    /\ status' = <<"Type: NdM, skill, or ability. Esc cancel">>
    /\ UNCHANGED <<items, selected, wizard, selected_spell_level, detail_tab, db_vars,
                   proc, session, script, confirmed>>
    /\ UNCHANGED calc_vars

\* _ => {}
DetailsOther ==
    /\ Running /\ Does("other") /\ mode = "Details"
    /\ UNCHANGED vars
    /\ UNCHANGED calc_vars

\* ------------------------------------------------------------------ app.rs: Mode::Edit
\* KeyCode::Esc
\* an Esc that goes back to Details
EditEsc_to_details ==
    /\ Running /\ Does("edit") /\ mode = "Edit"
    /\ mode' = "Details"
    /\ status' = details_status
    /\ UNCHANGED <<items, selected, input, wizard, selected_spell_level, detail_tab,
                   db_vars, proc, session, script, confirmed>>
    /\ UNCHANGED calc_vars

EditEsc ==
    /\ Running /\ Does("edit") /\ mode = "Edit"
    /\ mode' = "List"
    /\ status' = default_status
    /\ UNCHANGED <<items, selected, input, wizard, selected_spell_level, detail_tab,
                   db_vars, proc, session, script, confirmed>>
    /\ UNCHANGED calc_vars

\* the selected character replaced by its mutation o (a panic or a character),
\* then save_current with its Err dropped
MutateAndSave(o, okSave) ==
    IF o.panic THEN okSave /\ Panic
    ELSE LET its == [items EXCEPT ![selected + 1] = o.c]
             sv == save_current(characters, its, selected, okSave)
         IN IF sv.panic THEN okSave /\ Panic
            ELSE /\ MayFail(<<okSave>>)
                 /\ items' = its
                 /\ characters' = sv.tbl
                 /\ failures' = Failed(<<okSave>>)
                 /\ UNCHANGED <<sqlite_sequence, selected, mode, input, status, wizard,
                                selected_spell_level, detail_tab, proc, session, script, confirmed>>

\* KeyCode::Char('+')
EditPlus ==
    /\ Running /\ Does("hp") /\ mode = "Edit"
    /\ LET cur == current(items, selected) IN
       IF IsSome(cur)
       THEN /\ Unwrap(cur).hp_current < MaxHpSteps \/ Unwrap(cur).hp_max - Unwrap(cur).hp_current <= MaxHpSteps
            /\ \E okSave \in BOOLEAN : \E o \in change_hp(Unwrap(cur), 1) :
                  MutateAndSave(o, okSave)
       ELSE UNCHANGED vars
    /\ UNCHANGED calc_vars

\* KeyCode::Char('-')
EditMinus ==
    /\ Running /\ Does("hp") /\ mode = "Edit"
    /\ LET cur == current(items, selected) IN
       IF IsSome(cur)
       THEN /\ Unwrap(cur).hp_current <= MaxHpSteps \/ Unwrap(cur).hp_max - Unwrap(cur).hp_current < MaxHpSteps
            /\ \E okSave \in BOOLEAN : \E o \in change_hp(Unwrap(cur), -1) :
                  MutateAndSave(o, okSave)
       ELSE UNCHANGED vars
    /\ UNCHANGED calc_vars

\* KeyCode::Char('l'): the first arm that matches 'l'; pressed at a level from 1 up
\* to MaxLevel and at the highest i32
EditLevelUp ==
    /\ Running /\ Does("level") /\ mode = "Edit"
    /\ LET cur == current(items, selected) IN
       IF IsSome(cur)
       THEN /\ \/ Unwrap(cur).level >= 1 /\ Unwrap(cur).level < MaxLevel
               \/ Unwrap(cur).level = I32Max
            /\ \E okSave \in BOOLEAN : \E o \in level_up(Unwrap(cur)) :
                  MutateAndSave(o, okSave)
       ELSE UNCHANGED vars
    /\ UNCHANGED calc_vars

\* KeyCode::Left | KeyCode::Char('h')
EditLeft ==
    /\ Running /\ Does("tabs") /\ mode = "Edit"
    /\ detail_tab' = saturating_sub(detail_tab, 1)
    /\ UNCHANGED <<items, selected, mode, input, status, wizard, selected_spell_level,
                   db_vars, proc, session, script, confirmed>>
    /\ UNCHANGED calc_vars

\* KeyCode::Right (Char('l') is taken by the level-up arm above it)
EditRight ==
    /\ Running /\ Does("tabs") /\ mode = "Edit"
    /\ detail_tab' = min(detail_tab + 1, 2)
    /\ UNCHANGED <<items, selected, mode, input, status, wizard, selected_spell_level,
                   db_vars, proc, session, script, confirmed>>
    /\ UNCHANGED calc_vars

\* KeyCode::Char('1') .. KeyCode::Char('9')
\* a digit key that also saves the selected character
EditDigit_saving ==
    /\ Running /\ Does("slots") /\ mode = "Edit"
    /\ \E k \in 1..9 :
        /\ selected_spell_level' = k
        /\ status' = <<"Editing: Slot L", k, " selected">>
    /\ characters' = save_current(characters, items, selected, TRUE).tbl
    /\ UNCHANGED <<items, selected, mode, input, wizard, detail_tab, sqlite_sequence,
                   failures, proc, session, script, confirmed>>
    /\ UNCHANGED calc_vars

EditDigit ==
    /\ Running /\ Does("slots") /\ mode = "Edit"
    /\ \E k \in 1..9 :
        /\ selected_spell_level' = k
        /\ status' = <<"Editing: Slot L", k, " selected">>
    /\ UNCHANGED <<items, selected, mode, input, wizard, detail_tab, db_vars, proc,
                   session, script, confirmed>>
    /\ UNCHANGED calc_vars

\* '[' and ']': adjust_spell_slot on the selected character when there is one, then
\* save_current in either case
AdjustAndSave(delta) ==
    LET cur == current(items, selected) IN
    \E okSave \in BOOLEAN :
        IF IsSome(cur)
        THEN \E o \in adjust_spell_slot(Unwrap(cur), selected_spell_level, delta) :
                MutateAndSave(o, okSave)
        ELSE okSave /\ UNCHANGED vars

\* KeyCode::Char('['); pressed at a count of up to MaxSlot
EditSlotDown ==
    /\ Running /\ Does("slots") /\ mode = "Edit"
    /\ LET cur == current(items, selected) IN
       IsSome(cur) => Unwrap(cur).spell_slots[selected_spell_level] <= MaxSlot
    /\ AdjustAndSave(-1)
    /\ UNCHANGED calc_vars

\* KeyCode::Char(']'); pressed while the counts below the highest i32 sum to less
\* than MaxSlot, and at a count that is the highest i32
EditSlotUp ==
    /\ Running /\ Does("slots") /\ mode = "Edit"
    /\ LET cur == current(items, selected) IN
       IsSome(cur) =>
          LET s == Unwrap(cur).spell_slots IN
          \/ s[selected_spell_level] = I32Max
          \/ SumSeq([i \in 1..Len(s) |-> IF s[i] = I32Max THEN 0 ELSE s[i]]) < MaxSlot
    /\ AdjustAndSave(1)
    /\ UNCHANGED calc_vars

\* KeyCode::Char('a')
\* an 'a' that leaves the input as it is
EditAdd_keeping_input ==
    /\ Running /\ Does("inventory") /\ mode = "Edit"
    /\ LET cur == current(items, selected) IN
       IsSome(cur) => Len(Unwrap(cur).inventory) < MaxInv
    /\ mode' = "EditAddItem"
    /\ status' = <<"Type item then Enter to add. Esc cancel">>
    /\ UNCHANGED <<items, selected, input, wizard, selected_spell_level, detail_tab,
                   db_vars, proc, session, script, confirmed>>
    /\ UNCHANGED calc_vars

EditAdd ==
    /\ Running /\ Does("inventory") /\ mode = "Edit"
    /\ LET cur == current(items, selected) IN
       IsSome(cur) => Len(Unwrap(cur).inventory) < MaxInv
    /\ mode' = "EditAddItem"
    /\ status' = <<"Type item then Enter to add. Esc cancel">>
    /\ input' = <<>>
    /\ UNCHANGED <<items, selected, wizard, selected_spell_level, detail_tab, db_vars,
                   proc, session, script, confirmed>>
    /\ UNCHANGED calc_vars

\* KeyCode::Char('A')
EditRemove ==
    /\ Running /\ Does("inventory") /\ mode = "Edit"
    /\ LET cur == current(items, selected) IN
       IF IsSome(cur) /\ Unwrap(cur).inventory # <<>>
       THEN \E okSave \in BOOLEAN :
                MutateAndSave([panic |-> FALSE,
                               c |-> remove_item(Unwrap(cur), Len(Unwrap(cur).inventory) - 1)],
                              okSave)
       ELSE UNCHANGED vars
    /\ UNCHANGED calc_vars

\* KeyCode::Char('s')
EditSave ==
    /\ Running /\ Does("save") /\ mode = "Edit"
    /\ \E okSave \in BOOLEAN :
        LET sv == save_current(characters, items, selected, okSave)
            oks == IF IsSome(current(items, selected)) THEN <<okSave>> ELSE <<>>
        IN IF sv.panic THEN okSave /\ Panic
           ELSE /\ MayFail(oks)
                /\ IsSome(current(items, selected)) \/ okSave
                /\ characters' = sv.tbl
                /\ failures' = Failed(oks)
                /\ status' = <<"Saved.">>
                /\ UNCHANGED <<sqlite_sequence, items, selected, mode, input, wizard,
                               selected_spell_level, detail_tab, proc, session, script, confirmed>>
    /\ UNCHANGED calc_vars

\* _ => {}
EditOther ==
    /\ Running /\ Does("other") /\ mode = "Edit"
    /\ UNCHANGED vars
    /\ UNCHANGED calc_vars

\* ------------------------------------------------------------------ app.rs: Mode::EditAddItem
\* KeyCode::Esc
AddItemEsc ==
    /\ Running /\ Does("inventory") /\ mode = "EditAddItem"
    /\ mode' = "Edit"
    /\ status' = edit_status
    /\ UNCHANGED <<items, selected, input, wizard, selected_spell_level, detail_tab,
                   db_vars, proc, session, script, confirmed>>
    /\ UNCHANGED calc_vars

\* KeyCode::Enter
AddItemEnter ==
    /\ Running /\ Does("inventory") /\ mode = "EditAddItem" /\ Submits
    /\ LET item == trim(input)
           cur == current(items, selected)
       IN \E okSave \in BOOLEAN :
           IF IsSome(cur)
           THEN LET its == [items EXCEPT ![selected + 1] = add_item(Unwrap(cur), item)]
                    sv == save_current(characters, its, selected, okSave)
                IN IF sv.panic THEN okSave /\ Panic
                   ELSE /\ MayFail(<<okSave>>)
                        /\ items' = its
                        /\ characters' = sv.tbl
                        /\ failures' = Failed(<<okSave>>)
                        /\ input' = <<>>
                        /\ mode' = "Edit"
                        /\ UNCHANGED <<sqlite_sequence, selected, status, wizard,
                                       selected_spell_level, detail_tab, proc, session,
                                       script, confirmed>>
           ELSE /\ okSave
                /\ input' = <<>>
                /\ mode' = "Edit"
                /\ UNCHANGED <<db_vars, items, selected, status, wizard,
                               selected_spell_level, detail_tab, proc, session, script, confirmed>>
    /\ UNCHANGED calc_vars

\* KeyCode::Char(ch)
AddItemChar ==
    /\ Running /\ Does("inventory") /\ mode = "EditAddItem"
    /\ \E ch \in NextChars : input' = Append(input, ch)
    /\ UNCHANGED <<items, selected, mode, status, wizard, selected_spell_level, detail_tab,
                   db_vars, proc, session, script, confirmed>>
    /\ UNCHANGED calc_vars

\* KeyCode::Backspace
AddItemBackspace ==
    /\ Running /\ Does("inventory") /\ mode = "EditAddItem"
    /\ input' = IF input # <<>> THEN SubSeq(input, 1, Len(input) - 1) ELSE input
    /\ UNCHANGED <<items, selected, mode, status, wizard, selected_spell_level, detail_tab,
                   db_vars, proc, session, script, confirmed>>
    /\ UNCHANGED calc_vars

\* _ => {}
AddItemOther ==
    /\ Running /\ Does("other") /\ mode = "EditAddItem"
    /\ UNCHANGED vars
    /\ UNCHANGED calc_vars

\* ------------------------------------------------------------------ dice.rs
\* a parse that takes the text as it is written
parse_dice_as_written(spec) ==
    LET parts == split(spec, "d")
    IN IF Len(parts) # 2 THEN None
       ELSE LET count == IF parts[1] = <<>> THEN Some(1) ELSE parse_i32(parts[1])
                sides == parse_i32(parts[2])
            IN IF ~IsSome(count) \/ ~IsSome(sides) THEN None
               ELSE IF Unwrap(count) <= 0 \/ Unwrap(sides) <= 0 THEN None
               ELSE Some(<<Unwrap(count), Unwrap(sides)>>)

\* parse_dice: Some(<<count, sides>>) or None
parse_dice(spec) ==
    LET s == to_lowercase(trim(spec))
        parts == split(s, "d")
    IN IF Len(parts) # 2 THEN None
       ELSE LET count == IF parts[1] = <<>> THEN Some(1) ELSE parse_i32(parts[1])
                sides == parse_i32(parts[2])
            IN IF ~IsSome(count) \/ ~IsSome(sides) THEN None
               ELSE IF Unwrap(count) <= 0 \/ Unwrap(sides) <= 0 THEN None
               ELSE Some(<<Unwrap(count), Unwrap(sides)>>)

StrD20 == <<"1","d","2","0">>

\* rng.gen_range(1..=sides): every face of a die of up to MaxFaces sides, the
\* lowest and the highest face of a larger one
Faces(sides) == IF sides <= MaxFaces THEN 1..sides ELSE {1, sides}

\* some addition of 'total += r' over q, starting from acc, leaves the i32 range
RECURSIVE Overflows(_, _)
Overflows(q, acc) ==
    IF q = <<>> THEN FALSE
    ELSE CheckedAdd(acc, Head(q)) # "ok" \/ Overflows(Tail(q), acc + Head(q))

\* the two's-complement result of adding q to acc one by one
RECURSIVE WrappingSum(_, _)
WrappingSum(q, acc) ==
    IF q = <<>> THEN acc ELSE WrappingSum(Tail(q), WrappingAdd(acc, Head(q)))

\* roll: the outcomes the random source and the build can give, each the total and
\* the rolls or a panic; the modifier is added last
roll(dice, modifier) ==
    LET p == parse_dice(dice)
        cs == IF IsSome(p) THEN Unwrap(p) ELSE <<1, 20>>
        Outcomes(r) ==
            IF Overflows(Append(r, modifier), 0)
            THEN {[panic |-> TRUE, total |-> 0, rolls |-> <<>>],
                  [panic |-> FALSE, total |-> WrappingSum(Append(r, modifier), 0), rolls |-> r]}
            ELSE {[panic |-> FALSE, total |-> SumSeq(r) + modifier, rolls |-> r]}
    IN UNION {Outcomes(r) : r \in [1..cs[1] -> Faces(cs[2])]}

\* ------------------------------------------------------------------ app.rs: Mode::Roll
\* KeyCode::Esc
RollEsc ==
    /\ Running /\ Does("roll") /\ mode = "Roll"
    /\ mode' = "List"
    /\ input' = <<>>
    /\ status' = default_status
    /\ UNCHANGED <<items, selected, wizard, selected_spell_level, detail_tab, db_vars,
                   proc, session, script, confirmed>>
    /\ UNCHANGED calc_vars

AbilityAbbreviations == {StrStr, StrDex, StrCon, StrInt, StrWis, StrCha}

\* a plan that does not look the text up in the skill catalog
RollPlan_without_skills(cur, inp) ==
    IF IsSome(cur)
    THEN IF IsSome(parse_dice(inp))
         THEN {[dice |-> inp, modifier |-> Returns(0), desc |-> inp]}
         ELSE IF inp \in AbilityAbbreviations
              THEN {[dice |-> StrD20, modifier |-> m,
                     desc |-> to_uppercase(inp) \o <<" ","a","b","i","l","i","t","y">>] :
                        m \in ability_modifier_by_name(Unwrap(cur), inp)}
         ELSE {[dice |-> StrD20, modifier |-> Returns(0), desc |-> <<"d","2","0">>]}
    ELSE {[dice |-> StrD20, modifier |-> Returns(0), desc |-> inp]}

\* a plan that rolls the dice typed when no character is selected
RollPlan_dice_without_character(cur, inp) ==
    IF IsSome(parse_dice(inp))
    THEN {[dice |-> inp, modifier |-> Returns(0), desc |-> inp]}
    ELSE {[dice |-> StrD20, modifier |-> Returns(0), desc |-> <<"d","2","0">>]}

\* what Enter rolls for input inp: the dice, a modifier outcome and the description
RollPlan(cur, inp) ==
    IF IsSome(cur)
    THEN IF IsSome(parse_dice(inp))
         THEN {[dice |-> inp, modifier |-> Returns(0), desc |-> inp]}
         ELSE IF \E i \in 1..Len(all_skills) : all_skills[i][1] = inp
              THEN {[dice |-> StrD20, modifier |-> m,
                     desc |-> capitalize(inp) \o <<" ","c","h","e","c","k">>] :
                        m \in skill_modifier(Unwrap(cur), inp)}
         ELSE IF inp \in AbilityAbbreviations
              THEN {[dice |-> StrD20, modifier |-> m,
                     desc |-> to_uppercase(inp) \o <<" ","a","b","i","l","i","t","y">>] :
                        m \in ability_modifier_by_name(Unwrap(cur), inp)}
         ELSE {[dice |-> StrD20, modifier |-> Returns(0), desc |-> <<"d","2","0">>]}
    ELSE {[dice |-> StrD20, modifier |-> Returns(0), desc |-> inp]}

\* KeyCode::Enter
RollEnter ==
    /\ Running /\ Does("roll") /\ mode = "Roll" /\ Submits
    /\ LET inp == to_lowercase(trim(input))
           cur == current(items, selected)
           name == IF IsSome(cur) THEN Unwrap(cur).name ELSE <<>>
       IN \E plan \in RollPlan(cur, inp) :
             IF plan.modifier.panic THEN Panic
             ELSE \E res \in roll(plan.dice, plan.modifier.v) :
                    IF res.panic THEN Panic
                    ELSE /\ status' = <<name, " rolls ", plan.desc, ": ", res.rolls,
                                         " total ", res.total>>
                         /\ mode' = "List"
                         /\ input' = <<>>
                         /\ UNCHANGED <<items, selected, wizard, selected_spell_level,
                                        detail_tab, db_vars, proc, session, script,
                                        confirmed>>
    /\ UNCHANGED calc_vars

\* KeyCode::Char(ch)
RollChar ==
    /\ Running /\ Does("roll") /\ mode = "Roll"
    /\ \E ch \in NextChars : input' = Append(input, ch)
    /\ UNCHANGED <<items, selected, mode, status, wizard, selected_spell_level, detail_tab,
                   db_vars, proc, session, script, confirmed>>
    /\ UNCHANGED calc_vars

\* KeyCode::Backspace
RollBackspace ==
    /\ Running /\ Does("roll") /\ mode = "Roll"
    /\ input' = IF input # <<>> THEN SubSeq(input, 1, Len(input) - 1) ELSE input
    /\ UNCHANGED <<items, selected, mode, status, wizard, selected_spell_level, detail_tab,
                   db_vars, proc, session, script, confirmed>>
    /\ UNCHANGED calc_vars

\* _ => {}
RollOther ==
    /\ Running /\ Does("other") /\ mode = "Roll"
    /\ UNCHANGED vars
    /\ UNCHANGED calc_vars

\* ------------------------------------------------------------------ sessions
\* a row the table holds when the program starts
Row(id, name, hp_current, hp_max) ==
    [DefaultCharacter EXCEPT !.id = Some(id), !.name = name,
                             !.hp_current = hp_current, !.hp_max = hp_max]

StrAnn == <<"A","n","n">>
StrBo == <<"B","o">>

StartTable == {Row(1, StrBo, I32Max, I32Max), Row(2, StrAnn, 1, 2)}
TiedTable == {Row(1, StrBo, 10, 10), Row(2, StrAnn, 1, 2), Row(3, StrAnn, 2, 2)}
\* a level 5 character with dexterity 15, proficient in stealth
RollTable ==
    {[Row(1, StrBo, 7, 9) EXCEPT !.level = 5, !.dexterity = 15,
                                 !.skill_proficiencies = << <<"s","t","e","a","l","t","h">> >>]}

\* a character at the highest level and with the highest count of level 9 slots
EdgeTable ==
    {[Row(1, StrBo, 3, 5) EXCEPT !.level = I32Max, !.spell_slots[9] = I32Max]}

\* The sessions checked: the commands the user uses and the table at start.
\* Every session may quit in List mode and press keys that no arm matches.
Sessions ==
    { [cmds |-> {"quit", "nav", "wizard", "other"}, table |-> {}],
      [cmds |-> {"quit", "nav", "delete", "other"}, table |-> TiedTable],
      [cmds |-> {"quit", "nav", "details", "edit", "hp", "level", "save", "other"},
       table |-> StartTable],
      [cmds |-> {"quit", "details", "edit", "tabs", "slots", "other"},
       table |-> StartTable],
      [cmds |-> {"quit", "nav", "edit", "inventory", "other"}, table |-> StartTable],
      [cmds |-> {"quit", "details", "roll", "other"}, table |-> RollTable],
      [cmds |-> {"quit", "roll", "details", "edit", "other"}, table |-> {}],
      [cmds |-> {"quit", "edit", "slots", "other"}, table |-> EdgeTable],
      [cmds |-> {"quit", "edit", "level", "other"}, table |-> EdgeTable],
      [cmds |-> {"quit", "edit", "inventory", "roll", "other"}, table |-> RollTable] }

\* ------------------------------------------------------------------ specification
\* main: Db::open_or_create, then App::new, whose list_characters returned Ok
Init ==
    \E s \in Sessions :
        /\ session = s.cmds
        /\ characters = s.table
        /\ sqlite_sequence = Cardinality(s.table)
        /\ failures = 0
        /\ items \in list_characters(s.table)
        /\ selected = 0
        /\ mode = "List"
        /\ input = <<>>
        /\ status = InitialStatus
        /\ wizard = None
        /\ selected_spell_level = 1
        /\ detail_tab = 0
        /\ proc = "running"
        /\ script = 0
        /\ confirmed = <<>>
        /\ call = <<>>
        /\ result = None

Next ==
    \/ ListQuit \/ ListDown \/ ListUp \/ ListEnter \/ ListNew \/ ListEdit
    \/ ListDelete \/ ListRoll \/ ListOther
    \/ CreateEsc \/ CreateChar \/ CreateBackspace \/ CreateOther
    \/ CreateNameEnter \/ CreateClassEnter \/ CreateRaceEnter \/ CreateAbilitiesEnter
    \/ CreateHpMaxEnter \/ CreateAcEnter \/ CreateSpeedEnter \/ CreateSkillsEnter
    \/ DetailsEsc \/ DetailsLeft \/ DetailsRight \/ DetailsEdit \/ DetailsRoll
    \/ DetailsOther
    \/ EditEsc \/ EditPlus \/ EditMinus \/ EditLevelUp \/ EditLeft \/ EditRight
    \/ EditDigit \/ EditSlotDown \/ EditSlotUp \/ EditAdd \/ EditRemove \/ EditSave
    \/ EditOther
    \/ AddItemEsc \/ AddItemEnter \/ AddItemChar \/ AddItemBackspace \/ AddItemOther
    \/ RollEsc \/ RollEnter \/ RollChar \/ RollBackspace \/ RollOther

Spec == Init /\ [][Next]_vars

\* ------------------------------------------------------------------ the functions called on their own
\* scores ability_mod is called with: those around 10 and the ends of i32
MaxScore == 30
Scores == (-MaxScore..MaxScore) \cup {I32Min, I32Min + 9, I32Min + 10, I32Max}

\* levels proficiency_bonus is called with: those around 1..20 and the ends of i32
MaxLevelCalled == 21
Levels == (-MaxLevelCalled..MaxLevelCalled) \cup {I32Min, I32Max}

\* characters skill_modifier is called on
Sheets ==
    { [DefaultCharacter EXCEPT !.level = 5,
                               !.skill_proficiencies = << <<"a","t","h","l","e","t","i","c","s">> >>],
      [DefaultCharacter EXCEPT !.strength = 8, !.dexterity = 15, !.wisdom = 13,
                               !.skill_proficiencies = << <<"S","t","e","a","l","t","h">>, <<"p","e","r","c","e","p","t","i","o","n">> >>],
      [DefaultCharacter EXCEPT !.strength = I32Min, !.intelligence = 7, !.level = 9],
      [DefaultCharacter EXCEPT !.charisma = 20, !.level = 0,
                               !.skill_proficiencies = << <<"p","e","r","s","u","a","s","i","o","n">> >>] }

\* skill names skill_modifier is called with: the catalog's, two in other case, two
\* that are not in the catalog
SkillsCalled ==
    { <<"a","c","r","o","b","a","t","i","c","s">>,
      <<"a","n","i","m","a","l"," ","h","a","n","d","l","i","n","g">>,
      <<"a","r","c","a","n","a">>,
      <<"a","t","h","l","e","t","i","c","s">>,
      <<"d","e","c","e","p","t","i","o","n">>,
      <<"h","i","s","t","o","r","y">>,
      <<"i","n","s","i","g","h","t">>,
      <<"i","n","t","i","m","i","d","a","t","i","o","n">>,
      <<"i","n","v","e","s","t","i","g","a","t","i","o","n">>,
      <<"m","e","d","i","c","i","n","e">>,
      <<"n","a","t","u","r","e">>,
      <<"p","e","r","c","e","p","t","i","o","n">>,
      <<"p","e","r","f","o","r","m","a","n","c","e">>,
      <<"p","e","r","s","u","a","s","i","o","n">>,
      <<"r","e","l","i","g","i","o","n">>,
      <<"s","l","e","i","g","h","t"," ","o","f"," ","h","a","n","d">>,
      <<"s","t","e","a","l","t","h">>,
      <<"s","u","r","v","i","v","a","l">>,
      <<"A","t","h","l","e","t","i","c","s">>,
      <<"S","T","E","A","L","T","H">>,
      <<"z","z">>,
      <<>> }

\* texts parse_dice is called with
DiceTexts ==
    { <<"2","d","6">>,
      <<"d","2","0">>,
      <<"0","d","6">>,
      <<"d","0">>,
      <<"a","b","c">>,
      <<"1","d","6","d","6">>,
      <<" ","2","D","6"," ">>,
      <<"+","2","d","6">>,
      <<"-","1","d","6">>,
      <<"2","d">>,
      <<"d">>,
      <<>>,
      <<"1","d","2","1","4","7","4","8","3","6","4","8">>,
      <<"2","1","4","7","4","8","3","6","4","7","d","1">>,
      <<"2"," ","d","6">>,
      <<"2","d","-","6">> }

\* texts and modifiers roll is called with
RollTexts ==
    { <<"3","d","1">>,
      <<"2","d","2">>,
      <<"d","2","0">>,
      <<"z","z">>,
      <<"0","d","6">>,
      <<"2","d","2","1","4","7","4","8","3","6","4","7">> }
RollModifiers == {0, -3, 5, I32Max}

\* a caller picks the function and its arguments
CalcInit ==
    /\ session = {}
    /\ characters = {}
    /\ sqlite_sequence = 0
    /\ failures = 0
    /\ items = <<>>
    /\ selected = 0
    /\ mode = "List"
    /\ input = <<>>
    /\ status = InitialStatus
    /\ wizard = None
    /\ selected_spell_level = 1
    /\ detail_tab = 0
    /\ proc = "running"
    /\ script = 0
    /\ confirmed = <<>>
    /\ result = None
    /\ \/ \E score \in Scores : call = <<"ability_mod", score>>
       \/ \E level \in Levels : call = <<"proficiency_bonus", level>>
       \/ \E c \in Sheets, skill \in SkillsCalled : call = <<"skill_modifier", c, skill>>
       \/ \E spec \in DiceTexts : call = <<"parse_dice", spec>>
       \/ \E dice \in RollTexts, modifier \in RollModifiers : call = <<"roll", dice, modifier>>

Called(name) == call # <<>> /\ call[1] = name /\ result = None

CallAbilityMod ==
    /\ Called("ability_mod")
    /\ \E o \in ability_mod(call[2]) : result' = Some(o)
    /\ UNCHANGED <<app_vars, db_vars, proc, session, script, confirmed, call>>

CallProficiencyBonus ==
    /\ Called("proficiency_bonus")
    /\ \E o \in proficiency_bonus([DefaultCharacter EXCEPT !.level = call[2]]) :
          result' = Some(o)
    /\ UNCHANGED <<app_vars, db_vars, proc, session, script, confirmed, call>>

CallSkillModifier ==
    /\ Called("skill_modifier")
    /\ \E o \in skill_modifier(call[2], call[3]) : result' = Some(o)
    /\ UNCHANGED <<app_vars, db_vars, proc, session, script, confirmed, call>>

CallParseDice ==
    /\ Called("parse_dice")
    /\ result' = Some(parse_dice(call[2]))
    /\ UNCHANGED <<app_vars, db_vars, proc, session, script, confirmed, call>>

CallRoll ==
    /\ Called("roll")
    /\ \E o \in roll(call[2], call[3]) : result' = Some(o)
    /\ UNCHANGED <<app_vars, db_vars, proc, session, script, confirmed, call>>

CalcNext ==
    \/ CallAbilityMod \/ CallProficiencyBonus \/ CallSkillModifier \/ CallParseDice
    \/ CallRoll

Calc == CalcInit /\ [][CalcNext]_vars

\* ------------------------------------------------------------------ claims
\* C1: the selection index is in bounds in every state: selected < Len(items) when
\* the list is non-empty, selected = 0 when it is empty.
C1_SelectionInBounds ==
    /\ items # <<>> => selected < Len(items)
    /\ items = <<>> => selected = 0

\* a delete took the last row of three while it was selected
C1_Witness ==
    /\ sqlite_sequence = 3 /\ Cardinality(characters) = 2 /\ failures = 0
    /\ Len(items) = 2 /\ selected = 1

HpWithinBounds(c) == c.hp_max >= 1 /\ 0 <= c.hp_current /\ c.hp_current <= c.hp_max

\* C2: every character in the list and in the table has hp_max >= 1 and
\* 0 <= hp_current <= hp_max, and '+' at hp_current = hp_max and '-' at
\* hp_current = 0 leave hp_current unchanged.
C2_HpStaysInBounds ==
    /\ [](/\ \A i \in 1..Len(items) : HpWithinBounds(items[i])
          /\ \A r \in characters : HpWithinBounds(r))
    /\ [][/\ (EditPlus /\ selected < Len(items)
                /\ items[selected + 1].hp_current = items[selected + 1].hp_max)
             => items'[selected + 1].hp_current = items[selected + 1].hp_current
          /\ (EditMinus /\ selected < Len(items) /\ items[selected + 1].hp_current = 0)
             => items'[selected + 1].hp_current = 0]_vars

\* C3: the wizard is linear: a Create mode is left only for its successor or for
\* List, is entered only from its predecessor (CreateName only from List), holds
\* exactly the confirmations of the steps before it, and a row is inserted only by
\* the step from CreateSkills to List after the seven steps before it.
C3_WizardIsLinear ==
    /\ [](\A i \in 1..Len(CreateModes) :
            mode = CreateModes[i] => confirmed = SubSeq(CreateModes, 1, i - 1))
    /\ [][/\ (mode \in CreateModeSet /\ mode' # mode)
             => (\/ mode' = "List"
                 \/ \E i \in 1..7 : mode = CreateModes[i] /\ mode' = CreateModes[i + 1])
          /\ (mode' \in CreateModeSet /\ mode' # mode)
             => (\/ mode = "List" /\ mode' = "CreateName"
                 \/ \E i \in 1..7 : mode = CreateModes[i] /\ mode' = CreateModes[i + 1])
          /\ (sqlite_sequence' # sqlite_sequence)
             => (/\ mode = "CreateSkills" /\ mode' = "List"
                 /\ confirmed = SubSeq(CreateModes, 1, 7))]_vars

\* a wizard run was completed and its character inserted
C3_Witness ==
    mode = "List" /\ sqlite_sequence = 1 /\ Cardinality(characters) = 1 /\ wizard = None

\* C4: Esc in a Create mode sets the mode to List, and no key of a wizard run but
\* the commit changes the table, the list or the selection: on Esc they are what
\* they were at 'n'.
C4_EscPersistsNothing ==
    [][/\ CreateEsc => mode' = "List"
       /\ (mode \in CreateModeSet /\ ~CreateSkillsEnter)
          => UNCHANGED <<characters, sqlite_sequence, items, selected>>]_vars

\* a run was cancelled at CreateSkills, after seven steps were entered
C4_Witness ==
    /\ mode = "List" /\ IsSome(wizard) /\ Unwrap(wizard).speed = 30
    /\ characters = {} /\ items = <<>>

\* C5: a Draft is held if and only if the mode is a Create mode.
C5_DraftIffCreateMode == IsSome(wizard) <=> mode \in CreateModeSet

\* the text is exactly six whitespace-separated tokens, each an integer
SixIntegers(text) ==
    LET toks == split_whitespace(text) IN
    Len(toks) = 6 /\ \A i \in 1..6 : IsSome(parse_i32(toks[i]))

\* C6: Enter in CreateAbilities advances, storing the six integers in order, exactly
\* when the input is six whitespace-separated integers; for any other input the
\* mode and the draft stay and the status is the 'exactly 6 numbers' error.
C6_SixIntegersOrRejected ==
    [][CreateAbilitiesEnter =>
        IF SixIntegers(input)
        THEN /\ mode' = "CreateHpMax"
             /\ \A i \in 1..6 :
                   Some(Unwrap(wizard').abilities[i]) = parse_i32(split_whitespace(input)[i])
        ELSE /\ mode' = "CreateAbilities"
             /\ wizard' = wizard
             /\ status' = <<"Please enter exactly 6 numbers">>]_vars

\* the texts of the numeric steps that are no i32 once trimmed: empty, letters, a
\* digit followed by a letter, and 2147483648
NotNumbers ==
    { <<>>, <<"x">>, <<"1","o">>, <<"2","1","4","7","4","8","3","6","4","8">> }

NumericEnter == CreateHpMaxEnter \/ CreateAcEnter \/ CreateSpeedEnter

\* C7: Enter in CreateHpMax, CreateAc or CreateSpeed with an input that is no
\* integer keeps the mode and the draft, does nothing to the store and sets the
\* error status; with an integer it moves to the next step.
C7_NumericStepRejects ==
    [][NumericEnter =>
        IF input \in NotNumbers
        THEN /\ mode' = mode
             /\ wizard' = wizard
             /\ UNCHANGED <<characters, sqlite_sequence, failures, items>>
             /\ status' = <<"Please enter a valid number">>
        ELSE \E i \in 5..7 : mode = CreateModes[i] /\ mode' = CreateModes[i + 1]]_vars

\* 2147483648 was rejected at CreateHpMax
C7_Witness ==
    /\ mode = "CreateHpMax" /\ status = <<"Please enter a valid number">>
    /\ input = <<"2","1","4","7","4","8","3","6","4","8">>

\* what the wizard run k enters, field by field: name, class, race, the six
\* abilities, hp_max, hp_current, armor_class, speed, level, skill proficiencies
Entered(k) ==
    IF k = 1
    THEN <<StrUnnamed, StrFighter, StrHuman, 1, 2, 3, 4, 5, 6, 1, 1, 10, 30, 1,
           << <<"a","r","c","a","n","a">>, <<"a","r","c","a","n","a">> >> >>
    ELSE << <<"B","o">>, <<"B","a","r","d">>, <<"E","l","f">>, 1, 2, 3, 4, 5, 9,
            I32Max, I32Max, -1, 25, 1, <<>> >>

Fields(c) ==
    <<c.name, c.class_name, c.race, c.strength, c.dexterity, c.constitution,
      c.intelligence, c.wisdom, c.charisma, c.hp_max, c.hp_current, c.armor_class,
      c.speed, c.level, c.skill_proficiencies>>

\* the table gained exactly one row, with a fresh id and the fields entered, the
\* list is the table in name order and the mode is List
CommitInserted ==
    /\ \E r \in characters' :
        /\ \A q \in characters : q.id # r.id
        /\ characters' = characters \cup {r}
        /\ Fields(r) = Entered(script)
    /\ items' \in list_characters(characters')
    /\ mode' = "List"

DeleteRemovedSelected ==
    IF items # <<>>
    THEN LET c == items[selected + 1] IN
         /\ c \in characters
         /\ characters' = characters \ {c}
         /\ Len(items') = Len(items) - 1
         /\ {items'[i] : i \in 1..Len(items')} = {items[i] : i \in 1..Len(items)} \ {c}
         /\ selected' = IF Len(items') = 0 THEN 0 ELSE min(selected, Len(items') - 1)
    ELSE UNCHANGED <<characters, items, selected>>

C10_WriteThrough == failures = 0 => items \in list_characters(characters)

\* a level-up was written through
C10_Witness ==
    /\ failures = 0
    /\ \E i \in 1..Len(items) : items[i].level = 2 /\ items[i] \in characters

\* the item the user means by the text typed in EditAddItem: the text without the
\* blanks around it
TypedItem ==
    IF input = <<" ","r","o","p","e"," ">> THEN <<"r","o","p","e">>
    ELSE IF input = <<"q">> THEN <<"q">>
    ELSE <<>>

\* Enter in EditAddItem appended the typed item, when there is one, to the selected
\* character and to nothing else, the table holds that character, the mode is Edit
ItemAddedAndSaved ==
    LET old == items[selected + 1] IN
    /\ selected < Len(items)
    /\ items' = [items EXCEPT ![selected + 1].inventory =
                    IF TypedItem # <<>> THEN Append(old.inventory, TypedItem)
                    ELSE old.inventory]
    /\ items'[selected + 1] \in characters'
    /\ \A r \in characters' : r.id # old.id => r \in characters
    /\ mode' = "Edit"

RollAsked ==
    IF input = <<"2","d","2">>
    THEN [desc |-> <<"2","d","2">>, count |-> 2, sides |-> 2, modifier |-> 0]
    ELSE IF input = <<" ","S","t","e","a","l","t","h">>
    THEN [desc |-> <<"S","t","e","a","l","t","h"," ","c","h","e","c","k">>,
          count |-> 1, sides |-> 20, modifier |-> 5]
    ELSE IF input = <<"d","e","x">>
    THEN [desc |-> <<"D","E","X"," ","a","b","i","l","i","t","y">>,
          count |-> 1, sides |-> 20, modifier |-> 2]
    ELSE IF input = <<"2","d","2","1","4","7","4","8","3","6","4","7">>
    THEN [desc |-> input, count |-> 2, sides |-> I32Max, modifier |-> 0]
    ELSE [desc |-> <<"d","2","0">>, count |-> 1, sides |-> 20, modifier |-> 0]

\* C12: with a character selected, Enter in Roll mode rolls the dice spec typed with
\* modifier 0, else a d20 plus the skill modifier as '<Skill> check', else a d20 plus
\* the ability modifier as '<ABILITY> ability', else a plain d20 as 'd20'.
\* (the result written when the handler returns; the total is compared where the
\* sum stays within i32)
C12_RollClassifies ==
    [][(RollEnter /\ selected < Len(items) /\ proc' = proc) =>
        /\ mode' = "List"
        /\ Len(status') = 7
        /\ status'[1] = items[selected + 1].name /\ status'[2] = " rolls "
        /\ status'[3] = RollAsked.desc /\ status'[4] = ": " /\ status'[6] = " total "
        /\ LET r == status'[5] IN
              /\ Len(r) = RollAsked.count
              /\ \A i \in 1..Len(r) : r[i] >= 1 /\ r[i] <= RollAsked.sides
              /\ ~Overflows(Append(r, RollAsked.modifier), 0) =>
                    status'[7] = SumSeq(r) + RollAsked.modifier]_vars

\* ' Stealth' was rolled as a skill check: a 20 plus 5
C12_Witness ==
    /\ mode = "List"
    /\ status = <<StrBo, " rolls ", <<"S","t","e","a","l","t","h"," ","c","h","e","c","k">>,
                  ": ", <<20>>, " total ", 25>>

\* C13: with an empty list, Enter in Roll mode rolls one d20 with modifier 0 whatever
\* the text, a dice spec included: one result in 1..20, the total equal to it, an
\* empty name, and the mode is List.
C13_RollWithoutCharacter ==
    [][(RollEnter /\ items = <<>>) =>
        /\ mode' = "List"
        /\ \E r \in 1..20 :
              /\ status'[1] = <<>>
              /\ status'[5] = <<r>>
              /\ status'[7] = r]_vars

\* '2d2' was typed with no character and one die came up 20
C13_Witness ==
    /\ mode = "List" /\ items = <<>> /\ Len(status) = 7
    /\ status[1] = <<>> /\ status[3] = <<"2","d","2">> /\ status[5] = <<20>>

\* C14: the process ends if and only if the key is 'q' in List mode: that key ends
\* it, and no key of any other mode does.
C14_OnlyQuitTerminates ==
    [][/\ ListQuit => proc' = "quit"
       /\ proc' # proc => (mode = "List" /\ proc' = "quit")]_vars

\* C15: a key event in which a store operation fails ends like a successful one: the
\* process keeps running, the mode is the one the key leads to on success (List
\* after 'd' and after the wizard's commit, Edit after an Edit or EditAddItem key),
\* and the keys after it are still handled.
C15_FailureSwallowed ==
    /\ [][failures' # failures =>
            /\ proc' = "running"
            /\ \/ mode \in {"List", "CreateSkills"} /\ mode' = "List"
               \/ mode \in {"Edit", "EditAddItem"} /\ mode' = "Edit"]_vars
    /\ []((failures > 0 /\ proc = "running") => ENABLED Next)

\* a delete failed and the three rows were deleted by the keys after it
C15_Witness ==
    /\ failures = 1 /\ proc = "running" /\ mode = "List"
    /\ sqlite_sequence = 3 /\ characters = {} /\ items = <<>>

\* the call of function name has returned or panicked
Returned(name) == call # <<>> /\ call[1] = name /\ IsSome(result)

\* v is floor((score - 10) / 2): 2 * v <= score - 10 < 2 * v + 2, within the range
\* that quotient has for an i32 score
IsFloorHalf(v, score) ==
    /\ v >= I32Min \div 2 - 5
    /\ v <= I32Max \div 2 - 5
    /\ 2 * v + 10 <= score
    /\ score <= 2 * v + 11

\* C16: for every integer score ability_mod(score) is floor((score - 10) / 2), with 9
\* giving -1, 10 giving 0 and 20 giving 5, and it never decreases as the score grows.
C16_AbilityModIsFloor ==
    Returned("ability_mod") =>
        LET score == call[2]
            o == Unwrap(result)
        IN /\ ~o.panic
           /\ IsFloorHalf(o.v, score)
           /\ score = 9 => o.v = -1
           /\ score = 10 => o.v = 0
           /\ score = 20 => o.v = 5
           /\ \A lower \in Scores : lower <= score =>
                 \A p \in ability_mod(lower) : ~p.panic /\ p.v <= o.v

\* the floor of (level - 1) / 4
FloorQuarter(level) == IF level = I32Min THEN I32Min \div 4 - 1 ELSE (level - 1) \div 4

\* C17: for every integer level, those below 1 included, proficiency_bonus is
\* 2 + floor((level - 1) / 4): 2 for levels 1-4, 3 for 5-8, 4 for 9-12, 5 for 13-16
\* and 6 for 17-20.
C17_ProficiencyBonusIsFloor ==
    Returned("proficiency_bonus") =>
        LET level == call[2]
            o == Unwrap(result)
        IN /\ ~o.panic
           /\ o.v = 2 + FloorQuarter(level)
           /\ level \in 1..4 => o.v = 2
           /\ level \in 5..8 => o.v = 3
           /\ level \in 9..12 => o.v = 4
           /\ level \in 13..16 => o.v = 5
           /\ level \in 17..20 => o.v = 6

\* the skills as the rules give them: the name as it is asked for, the ability score
\* that governs the skill, and the skill's name in lower case
Governing ==
    << [name |-> <<"a","c","r","o","b","a","t","i","c","s">>, ability |-> "dexterity", key |-> <<"a","c","r","o","b","a","t","i","c","s">>],
       [name |-> <<"a","n","i","m","a","l"," ","h","a","n","d","l","i","n","g">>, ability |-> "wisdom", key |-> <<"a","n","i","m","a","l"," ","h","a","n","d","l","i","n","g">>],
       [name |-> <<"a","r","c","a","n","a">>, ability |-> "intelligence", key |-> <<"a","r","c","a","n","a">>],
       [name |-> <<"a","t","h","l","e","t","i","c","s">>, ability |-> "strength", key |-> <<"a","t","h","l","e","t","i","c","s">>],
       [name |-> <<"d","e","c","e","p","t","i","o","n">>, ability |-> "charisma", key |-> <<"d","e","c","e","p","t","i","o","n">>],
       [name |-> <<"h","i","s","t","o","r","y">>, ability |-> "intelligence", key |-> <<"h","i","s","t","o","r","y">>],
       [name |-> <<"i","n","s","i","g","h","t">>, ability |-> "wisdom", key |-> <<"i","n","s","i","g","h","t">>],
       [name |-> <<"i","n","t","i","m","i","d","a","t","i","o","n">>, ability |-> "charisma", key |-> <<"i","n","t","i","m","i","d","a","t","i","o","n">>],
       [name |-> <<"i","n","v","e","s","t","i","g","a","t","i","o","n">>, ability |-> "intelligence", key |-> <<"i","n","v","e","s","t","i","g","a","t","i","o","n">>],
       [name |-> <<"m","e","d","i","c","i","n","e">>, ability |-> "wisdom", key |-> <<"m","e","d","i","c","i","n","e">>],
       [name |-> <<"n","a","t","u","r","e">>, ability |-> "intelligence", key |-> <<"n","a","t","u","r","e">>],
       [name |-> <<"p","e","r","c","e","p","t","i","o","n">>, ability |-> "wisdom", key |-> <<"p","e","r","c","e","p","t","i","o","n">>],
       [name |-> <<"p","e","r","f","o","r","m","a","n","c","e">>, ability |-> "charisma", key |-> <<"p","e","r","f","o","r","m","a","n","c","e">>],
       [name |-> <<"p","e","r","s","u","a","s","i","o","n">>, ability |-> "charisma", key |-> <<"p","e","r","s","u","a","s","i","o","n">>],
       [name |-> <<"r","e","l","i","g","i","o","n">>, ability |-> "intelligence", key |-> <<"r","e","l","i","g","i","o","n">>],
       [name |-> <<"s","l","e","i","g","h","t"," ","o","f"," ","h","a","n","d">>, ability |-> "dexterity", key |-> <<"s","l","e","i","g","h","t"," ","o","f"," ","h","a","n","d">>],
       [name |-> <<"s","t","e","a","l","t","h">>, ability |-> "dexterity", key |-> <<"s","t","e","a","l","t","h">>],
       [name |-> <<"s","u","r","v","i","v","a","l">>, ability |-> "wisdom", key |-> <<"s","u","r","v","i","v","a","l">>],
       [name |-> <<"A","t","h","l","e","t","i","c","s">>, ability |-> "strength", key |-> <<"a","t","h","l","e","t","i","c","s">>],
       [name |-> <<"S","T","E","A","L","T","H">>, ability |-> "dexterity", key |-> <<"s","t","e","a","l","t","h">>] >>

\* the outcomes the claim gives skill_modifier(c, name)
SkillModifierClaimed(c, name) ==
    LET hits == {i \in 1..Len(Governing) : Governing[i].name = name} IN
    IF hits # {}
    THEN LET g == Governing[CHOOSE i \in hits : TRUE]
             proficient == \E i \in 1..Len(c.skill_proficiencies) :
                              to_lowercase(c.skill_proficiencies[i]) = g.key
         IN {IF b.panic \/ p.panic THEN Panics ELSE Returns(b.v + p.v) :
                b \in ability_mod(c[g.ability]),
                p \in IF proficient THEN proficiency_bonus(c) ELSE {Returns(0)}}
    ELSE ability_mod(c.strength)

DiceNamed ==
    << [text |-> <<"2","d","6">>, dice |-> <<2, 6>>],
       [text |-> <<"d","2","0">>, dice |-> <<1, 20>>],
       [text |-> <<" ","2","D","6"," ">>, dice |-> <<2, 6>>],
       [text |-> <<"+","2","d","6">>, dice |-> <<2, 6>>],
       [text |-> <<"2","1","4","7","4","8","3","6","4","7","d","1">>, dice |-> <<I32Max, 1>>] >>

\* C19: parse_dice gives Some(count, sides) exactly for a text that, trimmed and in
\* lower case, is one 'd' with nothing or a positive integer before it and a positive
\* integer after it, and None for every other text.
C19_ParseDice ==
    Returned("parse_dice") =>
        LET hits == {i \in 1..Len(DiceNamed) : DiceNamed[i].text = call[2]} IN
        IF hits # {}
        THEN Unwrap(result) = Some(DiceNamed[CHOOSE i \in hits : TRUE].dice)
        ELSE Unwrap(result) = None

\* ' 2D6 ' was parsed as two dice of six sides
C19_Witness ==
    /\ Returned("parse_dice")
    /\ call[2] = <<" ","2","D","6"," ">>
    /\ result = Some(Some(<<2, 6>>))

\* the dice the texts rolled name: count and sides; 'zz' and '0d6' are no dice spec
\* and stand for one d20
DiceRolled ==
    IF call[2] = <<"3","d","1">> THEN <<3, 1>>
    ELSE IF call[2] = <<"2","d","2">> THEN <<2, 2>>
    ELSE IF call[2] = <<"2","d","2","1","4","7","4","8","3","6","4","7">> THEN <<2, I32Max>>
    ELSE <<1, 20>>

\* the sum of q and acc, acc first
RECURSIVE SumFrom(_, _)
SumFrom(q, acc) == IF q = <<>> THEN acc ELSE SumFrom(Tail(q), acc + Head(q))

\* C20: for every spec and modifier roll returns count rolls, each in 1..sides, and
\* their sum plus the modifier as the total, for the dice the spec names or one d20;
\* roll('3d1', 0) is 3 with rolls 1, 1, 1.
C20_RollTotals ==
    Returned("roll") =>
        LET o == Unwrap(result)
            modifier == call[3]
        IN /\ ~o.panic
           /\ Len(o.rolls) = DiceRolled[1]
           /\ \A i \in 1..Len(o.rolls) : o.rolls[i] >= 1 /\ o.rolls[i] <= DiceRolled[2]
           /\ ~Overflows(o.rolls, modifier)
           /\ o.total = SumFrom(o.rolls, modifier)
           /\ (DiceRolled = <<3, 1>> /\ modifier = 0) => (o.total = 3 /\ o.rolls = <<1, 1, 1>>)

\* a character holds exactly 9 slot counts, none of them negative
NineSlots(c) ==
    Len(c.spell_slots) = 9 /\ \A l \in 1..9 : c.spell_slots[l] >= 0

\* the list after a slot key: only the count at the selected spell level of the
\* selected character differs, and it is to
OnlySlotIs(to) ==
    items' = [items EXCEPT ![selected + 1].spell_slots[selected_spell_level] = to]

\* C21: in Edit mode '[' decreases and ']' increases by exactly 1 the slot count at
\* the selected spell level of the selected character, a count of 0 staying 0 under
\* '[', and the other eight counts are unchanged; every character in the list and
\* in the table keeps exactly 9 slot counts, all >= 0.
C21_SlotKeysStepByOne ==
    /\ [](/\ \A i \in 1..Len(items) : NineSlots(items[i])
          /\ \A r \in characters : NineSlots(r))
    /\ [][LET old == items[selected + 1].spell_slots[selected_spell_level]
              new == items'[selected + 1].spell_slots[selected_spell_level]
          IN /\ (EditSlotDown /\ selected < Len(items)) =>
                    OnlySlotIs(IF old = 0 THEN 0 ELSE old - 1)
             /\ (EditSlotUp /\ selected < Len(items)) =>
                    (OnlySlotIs(new) /\ new - 1 = old)]_vars

\* C22: in Edit mode a digit key k in 1..9 sets the selected spell level to k and
\* the status to the line naming it, and nothing else: the list, the selection, the
\* mode and the table are unchanged and no store operation is issued. No other key
\* changes the selected spell level.
C22_DigitOnlySelects ==
    [][/\ EditDigit =>
            /\ selected_spell_level' \in 1..9
            /\ status' = <<"Editing: Slot L", selected_spell_level', " selected">>
            /\ UNCHANGED <<items, selected, mode, input, wizard, detail_tab,
                           characters, sqlite_sequence, failures, proc>>
       /\ selected_spell_level' # selected_spell_level =>
            /\ mode = "Edit"
            /\ UNCHANGED <<items, selected, mode, characters, failures>>]_vars

\* level 9 was selected while a change of the selected character was still unsaved
C22_Witness ==
    /\ mode = "Edit" /\ selected_spell_level = 9
    /\ status = <<"Editing: Slot L", 9, " selected">>
    /\ selected < Len(items) /\ items[selected + 1] \notin characters

\* the fields of a character no key is said to change
Fixed(c) ==
    <<c.id, c.name, c.class_name, c.race, c.strength, c.dexterity, c.constitution,
      c.intelligence, c.wisdom, c.charisma, c.hp_max, c.armor_class, c.speed,
      c.skill_proficiencies>>

\* C23: each mutating Edit key changes only the field it names, only on the selected
\* character: '+'/'-' only hp_current, 'l' the level by exactly +1 (hp_max and
\* hp_current unchanged), '['/']' only one slot count, 'A' only the last inventory
\* item (nothing when the inventory is empty). No key of any mode changes the id,
\* name, class, race, ability scores, hp_max, armor_class, speed or skill
\* proficiencies of a character already in the list, and no Edit key changes another
\* character, the length of the list or the selection.
C23_EditKeysChangeOneField ==
    [][LET old == items[selected + 1]
           new == items'[selected + 1]
           picks == selected < Len(items)
       IN /\ ((EditPlus \/ EditMinus) /\ picks) =>
                items' = [items EXCEPT ![selected + 1].hp_current = new.hp_current]
          /\ (EditLevelUp /\ picks) =>
                /\ items' = [items EXCEPT ![selected + 1].level = new.level]
                /\ old.level < I32Max /\ new.level = old.level + 1
          /\ ((EditSlotDown \/ EditSlotUp) /\ picks) =>
                \E l \in 1..9 :
                    items' = [items EXCEPT ![selected + 1].spell_slots[l] = new.spell_slots[l]]
          /\ (EditRemove /\ picks) =>
                items' = [items EXCEPT ![selected + 1].inventory =
                             IF @ = <<>> THEN @ ELSE SubSeq(@, 1, Len(@) - 1)]
          /\ \A i \in 1..Len(items) : \A j \in 1..Len(items') :
                items[i].id = items'[j].id => Fixed(items[i]) = Fixed(items'[j])
          /\ mode = "Edit" =>
                /\ Len(items') = Len(items) /\ selected' = selected
                /\ \A i \in 1..Len(items) : i # selected + 1 => items'[i] = items[i]]_vars

\* C24: in every state the detail tab is in 0..2 and the selected spell level in
\* 1..9; in Details mode Left takes one from the tab and Right adds one to it,
\* clamped without wrap-around: Left at 0 stays at 0, Right at 2 stays at 2.
C24_TabAndLevelInRange ==
    /\ [](detail_tab \in 0..2 /\ selected_spell_level \in 1..9)
    /\ [][/\ DetailsLeft => detail_tab' = IF detail_tab = 0 THEN 0 ELSE detail_tab - 1
          /\ DetailsRight => detail_tab' = IF detail_tab = 2 THEN 2 ELSE detail_tab + 1
          /\ (DetailsLeft \/ DetailsRight) =>
                UNCHANGED <<mode, selected_spell_level, items, selected, characters>>]_vars

\* the last tab is shown in Details mode, where Right leaves it
C24_Witness ==
    mode = "Details" /\ detail_tab = 2 /\ ENABLED DetailsRight

\* C25: Roll mode is read-only and ends in List: no key of Roll mode changes a
\* character, the list, the selection or the table; Enter writes the roll result
\* into the status and Esc sets the default status, and both set the mode to List
\* and empty the input, also when Roll mode was entered from Details.
C25_RollIsReadOnly ==
    [][/\ mode = "Roll" =>
            /\ UNCHANGED <<items, selected, characters, sqlite_sequence, failures>>
            /\ mode' \in {"Roll", "List"}
       /\ RollEnter =>
            /\ mode' = "List" /\ input' = <<>>
            /\ Len(status') = 7 /\ status'[2] = " rolls " /\ status'[6] = " total "
       /\ RollEsc =>
            /\ mode' = "List" /\ input' = <<>>
            /\ status' = default_status]_vars

\* C26: whenever the mode is Details, Edit or EditAddItem the list is not empty and
\* the selection refers to a character of it; no key handled in these modes changes
\* which characters the list holds or the selection.
C26_DetailModesHaveCharacter ==
    /\ [](mode \in {"Details", "Edit", "EditAddItem"} =>
            (items # <<>> /\ selected < Len(items)))
    /\ [][(mode \in {"Details", "Edit", "EditAddItem"}) =>
            /\ selected' = selected
            /\ Len(items') = Len(items)
            /\ \A i \in 1..Len(items) : items'[i].id = items[i].id]_vars

\* an item is being typed for the second of two characters
C26_Witness ==
    mode = "EditAddItem" /\ Len(items) = 2 /\ selected = 1 /\ input # <<>>

\* C27: every character in the list has an assigned id, as every row of the table
\* has, so save_current never calls the update on a character without one; and the
\* characters the wizard creates enter the list only by the reload after the insert.
C27_ListedHaveIds ==
    /\ [](/\ \A i \in 1..Len(items) : IsSome(items[i].id)
          /\ \A r \in characters : IsSome(r.id)
          /\ ~save_current(characters, items, selected, TRUE).panic)
    /\ [][(Len(items') > Len(items)) =>
            /\ mode \in {"List", "CreateSkills"}
            /\ items' \in list_characters(characters')]_vars

\* two characters made by the wizard are listed with the ids 1 and 2
C27_Witness ==
    /\ mode = "List" /\ wizard = None /\ Len(items) = 2
    /\ {items[i].id : i \in 1..Len(items)} = {Some(1), Some(2)}
    /\ \E i \in 1..Len(items) : items[i].name = StrUnnamed

\* the draft a run holds at its step m when nothing but the texts confirmed in
\* that run went into it: the fields of the steps before m, the others as new
DraftSoFar ==
    LET e == Entered(script)
        n == CHOOSE i \in 1..Len(CreateModes) : CreateModes[i] = mode
    IN [ name |-> IF n > 1 THEN e[1] ELSE <<>>,
         class_name |-> IF n > 2 THEN e[2] ELSE <<>>,
         race |-> IF n > 3 THEN e[3] ELSE <<>>,
         abilities |-> IF n > 4 THEN <<e[4], e[5], e[6], e[7], e[8], e[9]>>
                       ELSE <<0, 0, 0, 0, 0, 0>>,
         hp_max |-> IF n > 5 THEN e[10] ELSE 0,
         hp_current |-> IF n > 5 THEN e[11] ELSE 0,
         armor_class |-> IF n > 6 THEN e[12] ELSE 0,
         speed |-> IF n > 7 THEN e[13] ELSE 0,
         skill_proficiencies |-> <<>> ]

\* C28: a character committed by the wizard depends only on the text confirmed in
\* the run begun by the most recent 'n': 'n' starts from a new draft and an empty
\* input whatever an earlier run left behind, at every step the draft holds the
\* texts confirmed in this run and nothing else and the input is text typed in
\* this step, and the row inserted has the fields entered in this run.
C28_RunsAreIndependent ==
    /\ [][ListNew => (wizard' = Some(DefaultDraft) /\ input' = <<>>)]_vars
    /\ [](mode \in CreateModeSet =>
            /\ wizard = Some(DraftSoFar)
            /\ \E t \in Texts(mode) : IsPrefix(input, t))
    /\ [][CreateSkillsEnter =>
            \A r \in characters' \ characters : Fields(r) = Entered(script)]_vars

\* after one run was committed another was cancelled at the race step: its draft
\* and the text typed there are still held when the next 'n' is pressed
C28_Witness ==
    /\ mode = "List" /\ characters # {} /\ ENABLED ListNew
    /\ IsSome(wizard) /\ Unwrap(wizard).name = StrBo
    /\ input = <<" ","E","l","f">>

\* a character key and Backspace of the text modes
CharKey == CreateChar \/ AddItemChar \/ RollChar
BackspaceKey == CreateBackspace \/ AddItemBackspace \/ RollBackspace

\* C29: in every text mode (the eight Create modes, EditAddItem and Roll) a
\* character key appends the character to the input and Backspace removes the last
\* character of the input, doing nothing when it is empty; neither key changes the
\* mode, the draft, a character or the table.
C29_TextKeysEditInput ==
    /\ [][(CharKey \/ BackspaceKey) =>
            UNCHANGED <<mode, wizard, items, selected, characters, sqlite_sequence,
                        failures, proc>>]_vars
    /\ [][CharKey =>
            (Len(input') = Len(input) + 1 /\ SubSeq(input', 1, Len(input)) = input)]_vars
    /\ [](ENABLED BackspaceKey =>
            ENABLED (BackspaceKey /\ input' = IF input = <<>> THEN <<>>
                                              ELSE SubSeq(input, 1, Len(input) - 1)))

\* C30: every step into a text mode (List to CreateName, an accepted wizard step to
\* the next, List or Details to Roll, Edit to EditAddItem) leaves the input empty,
\* whatever was typed before or left behind by a cancelled wizard, roll or item.
C30_PromptsStartEmpty ==
    [][(mode' # mode /\ mode' \in CreateModeSet \cup {"EditAddItem", "Roll"}) =>
            input' = <<>>]_vars

\* the name ' Bo ' was accepted and the class step begins with an empty input
C30_Witness ==
    /\ mode = "CreateClass" /\ input = <<>>
    /\ IsSome(wizard) /\ Unwrap(wizard).name = StrBo

\* the mode Esc is said to lead to from mode m
AfterEsc(m) == IF m = "EditAddItem" THEN "Edit" ELSE "List"

\* Esc as the mode in force handles it; List has no arm for it
EscKey ==
    \/ mode = "List" /\ ListOther
    \/ CreateEsc \/ DetailsEsc \/ EditEsc \/ AddItemEsc \/ RollEsc

\* C31: no mode is a trap: in every state of the running process, whatever the
\* mode, the input and the table, Esc is handled and leads EditAddItem to Edit and
\* every other mode to List (it is ignored in List) with the process still running,
\* and 'q' in List mode ends it; so Esc, Esc, 'q' ends the process from every state.
C31_QuitAlwaysReachable ==
    /\ [][EscKey => (mode' = AfterEsc(mode) /\ proc' = "running")]_vars
    /\ [][ListQuit => proc' = "quit"]_vars
    /\ [](Running =>
            /\ ENABLED EscKey
            /\ AfterEsc(AfterEsc(mode)) = "List"
            /\ mode = "List" => ENABLED (ListQuit /\ proc' = "quit"))

\* an item was being typed when Esc, Esc and 'q' were pressed: the text is still
\* in the input, the status is the one Esc sets in Edit mode, and the process ended
C31_Witness ==
    /\ proc = "quit" /\ mode = "List" /\ status = default_status
    /\ input = <<" ","r","o","p","e"," ">> /\ items # <<>>

====
